---- MODULE Spec2Model ----
(***************************************************************************)
(* Model of the blackjack server: the wire codec (protocol.py), the deck   *)
(* and hand value (game_logic.py, server.py) and the per-connection        *)
(* handler handle_client / play_one_round (server.py).                     *)
(*                                                                         *)
(* Python values: None is the empty tuple, a bytes object is a sequence of *)
(* integers 0..255, a str is the sequence of its code points, a card is    *)
(* the pair <<rank, suit>>.  A call that may raise returns a record        *)
(* [exc |-> name of the exception or "none", val |-> the value returned].  *)
(***************************************************************************)
EXTENDS Integers, Sequences, FiniteSets, TLC

None == <<>>

\* ------------------------------------------------------------------ bounds
\* Largest round count a modelled peer asks for.
MaxRounds == 2
\* Number of messages the peer may have queued, unread, on the connection.
MaxQueued == 2
\* Number of shuffles (deck orders) random.shuffle is taken to produce.
NumShuffles == 6

\* ------------------------------------------------------- protocol constants
\* 0xabcddcba as struct '!I' lays it out (TLC's integers are 32-bit
\* signed, so the cookie is compared as its four big-endian bytes).
MAGIC_COOKIE == <<171, 205, 220, 186>>
MSG_OFFER == 2
MSG_REQUEST == 3
MSG_PAYLOAD == 4
RECV_BUFSIZE == 1024

\* ------------------------------------------------------------ byte helpers
\* struct '!H': two bytes, big-endian.
PackU16(n) == << (n \div 256) % 256, n % 256 >>
UnpackU16(b) == b[1] * 256 + b[2]

Zeros(n) == [k \in 1..n |-> 0]
\* struct 'Ns': the bytes truncated to n, or right-padded with nulls to n.
PackFixed(b, n) ==
    IF Len(b) >= n THEN SubSeq(b, 1, n) ELSE b \o Zeros(n - Len(b))

IsCont(c) == c >= 128 /\ c <= 191

\* str.encode('utf-8') of a sequence of code points.
RECURSIVE utf8_encode(_)
utf8_encode(s) ==
    IF s = <<>> THEN <<>>
    ELSE LET c == s[1]
             enc == IF c < 128 THEN <<c>>
                    ELSE IF c < 2048 THEN << 192 + (c \div 64), 128 + (c % 64) >>
                    ELSE IF c < 65536
                         THEN << 224 + (c \div 4096), 128 + ((c \div 64) % 64),
                                 128 + (c % 64) >>
                    ELSE << 240 + (c \div 262144), 128 + ((c \div 4096) % 64),
                            128 + ((c \div 64) % 64), 128 + (c % 64) >>
         IN enc \o utf8_encode(Tail(s))

\* bytes.decode('utf-8'): the code points, or UnicodeDecodeError.
RECURSIVE utf8_decode(_)
utf8_decode(b) ==
    IF b = <<>> THEN [exc |-> "none", val |-> <<>>]
    ELSE
      LET c == b[1]
          n == IF c < 128 THEN 1
               ELSE IF c >= 194 /\ c <= 223 THEN 2
               ELSE IF c >= 224 /\ c <= 239 THEN 3
               ELSE IF c >= 240 /\ c <= 244 THEN 4
               ELSE 0
          lo2 == IF c = 224 THEN 160 ELSE IF c = 240 THEN 144 ELSE 128
          hi2 == IF c = 237 THEN 159 ELSE IF c = 244 THEN 143 ELSE 191
          wellFormed ==
              /\ n > 0
              /\ Len(b) >= n
              /\ n >= 2 => (b[2] >= lo2 /\ b[2] <= hi2)
              /\ n >= 3 => IsCont(b[3])
              /\ n >= 4 => IsCont(b[4])
      IN IF ~wellFormed THEN [exc |-> "UnicodeDecodeError", val |-> None]
         ELSE
           LET cp == IF n = 1 THEN c
                     ELSE IF n = 2 THEN (c - 192) * 64 + (b[2] - 128)
                     ELSE IF n = 3 THEN (c - 224) * 4096 + (b[2] - 128) * 64
                                        + (b[3] - 128)
                     ELSE (c - 240) * 262144 + (b[2] - 128) * 4096
                          + (b[3] - 128) * 64 + (b[4] - 128)
               rest == utf8_decode(SubSeq(b, n + 1, Len(b)))
           IN IF rest.exc # "none" THEN rest
              ELSE [exc |-> "none", val |-> <<cp>> \o rest.val]

\* str.rstrip('\x00')
RECURSIVE rstrip_nul(_)
rstrip_nul(s) ==
    IF s # <<>> /\ s[Len(s)] = 0 THEN rstrip_nul(SubSeq(s, 1, Len(s) - 1))
    ELSE s

\* ----------------------------------------------------------- protocol.py
pad_string(text, length) == PackFixed(utf8_encode(text), length)

decode_string(data) ==
    LET d == utf8_decode(data)
    IN IF d.exc # "none" THEN d ELSE [exc |-> "none", val |-> rstrip_nul(d.val)]

pack_offer(server_port, server_name) ==
    MAGIC_COOKIE \o <<MSG_OFFER>> \o PackU16(server_port)
        \o PackFixed(pad_string(server_name, 32), 32)

\* Mutant: the type tag is not compared.
unpack_offer_anyType(data) ==
    IF Len(data) # 39 THEN [exc |-> "none", val |-> None]
    ELSE
      LET cookie == SubSeq(data, 1, 4)
          port == UnpackU16(SubSeq(data, 6, 7))
          name == decode_string(SubSeq(data, 8, 39))
      IN IF cookie # MAGIC_COOKIE THEN [exc |-> "none", val |-> None]
         ELSE IF name.exc # "none" THEN name
         ELSE [exc |-> "none", val |-> <<port, name.val>>]

unpack_offer(data) ==
    IF Len(data) # 39 THEN [exc |-> "none", val |-> None]
    ELSE
      LET cookie == SubSeq(data, 1, 4)
          msg_type == data[5]
          port == UnpackU16(SubSeq(data, 6, 7))
          name == decode_string(SubSeq(data, 8, 39))
      IN IF cookie # MAGIC_COOKIE \/ msg_type # MSG_OFFER
         THEN [exc |-> "none", val |-> None]
         ELSE IF name.exc # "none" THEN name
         ELSE [exc |-> "none", val |-> <<port, name.val>>]

pack_request(num_rounds, client_name) ==
    MAGIC_COOKIE \o <<MSG_REQUEST, num_rounds>>
        \o PackFixed(pad_string(client_name, 32), 32)

\* Mutant: a rounds field of 0 is refused.
unpack_request_positive(data) ==
    IF Len(data) # 38 THEN [exc |-> "none", val |-> None]
    ELSE
      LET cookie == SubSeq(data, 1, 4)
          msg_type == data[5]
          rounds == data[6]
          name == decode_string(SubSeq(data, 7, 38))
      IN IF cookie # MAGIC_COOKIE \/ msg_type # MSG_REQUEST \/ rounds = 0
         THEN [exc |-> "none", val |-> None]
         ELSE IF name.exc # "none" THEN name
         ELSE [exc |-> "none", val |-> <<rounds, name.val>>]

\* Mutant: the cookie and the type are not compared.
unpack_request_unchecked(data) ==
    IF Len(data) # 38 THEN [exc |-> "none", val |-> None]
    ELSE
      LET name == decode_string(SubSeq(data, 7, 38))
      IN IF name.exc # "none" THEN name
         ELSE [exc |-> "none", val |-> <<data[6], name.val>>]

unpack_request(data) ==
    IF Len(data) # 38 THEN [exc |-> "none", val |-> None]
    ELSE
      LET cookie == SubSeq(data, 1, 4)
          msg_type == data[5]
          rounds == data[6]
          name == decode_string(SubSeq(data, 7, 38))
      IN IF cookie # MAGIC_COOKIE \/ msg_type # MSG_REQUEST
         THEN [exc |-> "none", val |-> None]
         ELSE IF name.exc # "none" THEN name
         ELSE [exc |-> "none", val |-> <<rounds, name.val>>]

pack_client_payload(decision) ==
    MAGIC_COOKIE \o <<MSG_PAYLOAD>> \o PackFixed(utf8_encode(decision), 5)

unpack_client_payload(data) ==
    IF Len(data) # 10 THEN [exc |-> "none", val |-> None]
    ELSE
      LET cookie == SubSeq(data, 1, 4)
          msg_type == data[5]
          decision_bytes == SubSeq(data, 6, 10)
      IN IF cookie # MAGIC_COOKIE \/ msg_type # MSG_PAYLOAD
         THEN [exc |-> "none", val |-> None]
         ELSE utf8_decode(decision_bytes)

pack_server_payload(result, card_rank, card_suit) ==
    MAGIC_COOKIE \o <<MSG_PAYLOAD, result>> \o PackU16(card_rank)
        \o <<card_suit>>

unpack_server_payload(data) ==
    IF Len(data) # 9 THEN None
    ELSE
      LET cookie == SubSeq(data, 1, 4)
          msg_type == data[5]
      IN IF cookie # MAGIC_COOKIE \/ msg_type # MSG_PAYLOAD THEN None
         ELSE << data[6], UnpackU16(SubSeq(data, 7, 8)), data[9] >>

\* The str literals the server compares a decision with.
\* Mutant: the hit token compared is "Hit".
HitttStr_short == <<72, 105, 116>>
HitttStr == <<72, 105, 116, 116, 116>>
StandStr == <<83, 116, 97, 110, 100>>

\* ---------------------------------------------------------- game_logic.py
\* [(rank, suit) for rank in range(1, 14) for suit in range(4)]
FullDeck == [k \in 1..52 |-> << ((k - 1) \div 4) + 1, (k - 1) % 4 >>]

\* random.shuffle: the deck orders considered, each a permutation of the
\* full deck; shuffle s reads the full deck with the stride and from the
\* offset that ShuffleParams[s] gives.
ShuffleParams ==
    << <<3, 26>>, <<1, 0>>, <<1, 1>>, <<1, 14>>, <<51, 51>>, <<1, 18>>,
       <<1, 12>>, <<1, 13>>, <<1, 11>>, <<11, 28>>, <<49, 50>>, <<1, 6>>,
       <<5, 46>> >>
ShuffleIds == 1..(IF NumShuffles <= Len(ShuffleParams) THEN NumShuffles
                  ELSE Len(ShuffleParams))
Shuffled(s) ==
    [k \in 1..52 |->
        FullDeck[((ShuffleParams[s][1] * (k - 1) + ShuffleParams[s][2]) % 52) + 1]]

\* Mutant: an empty deck is not refilled; pop() finds nothing.
draw_card_noRefill(deck, fresh) ==
    IF deck = <<>> THEN [card |-> None, deck |-> <<>>]
    ELSE [card |-> deck[Len(deck)], deck |-> SubSeq(deck, 1, Len(deck) - 1)]

\* Mutant: the last card is returned and left in the deck.
draw_card_noPop(deck, fresh) ==
    LET d == IF deck = <<>> THEN fresh ELSE deck
    IN [card |-> d[Len(d)], deck |-> d]

\* BlackjackGame.draw_card: the deck is refilled with `fresh` (a shuffled
\* full deck) when empty; the last card is popped.
draw_card(deck, fresh) ==
    CHOOSE r \in { [card |-> d[Len(d)], deck |-> SubSeq(d, 1, Len(d) - 1)]
                   : d \in { IF deck = <<>> THEN fresh ELSE deck } } : TRUE

\* -------------------------------------------------------------- server.py
RECURSIVE SumCards(_)
SumCards(cards) ==
    IF cards = <<>> THEN [total |-> 0, aces |-> 0]
    ELSE LET r == SumCards(SubSeq(cards, 1, Len(cards) - 1))
             rank == cards[Len(cards)][1]
         IN IF rank = 1 THEN [total |-> r.total + 11, aces |-> r.aces + 1]
            ELSE IF rank >= 10 THEN [total |-> r.total + 10, aces |-> r.aces]
            ELSE [total |-> r.total + rank, aces |-> r.aces]

\* Mutant: one Ace at most is turned from 11 to 1.
AdjustAces_once(total, aces) ==
    IF total > 21 /\ aces > 0 THEN total - 10 ELSE total

\* Mutant: no Ace is turned from 11 to 1.
AdjustAces_none(total, aces) == total

\* while total > 21 and aces > 0: total -= 10; aces -= 1
RECURSIVE AdjustAces(_, _)
AdjustAces(total, aces) ==
    IF total > 21 /\ aces > 0 THEN AdjustAces(total - 10, aces - 1) ELSE total

calculate_points_safe(cards) ==
    LET s == SumCards(cards) IN AdjustAces(s.total, s.aces)

\* BlackjackGame.calculate_hand (game_logic.py): the same loop over the
\* cards and the same adjustment.
calculate_hand(cards) ==
    LET s == SumCards(cards) IN AdjustAces(s.total, s.aces)


\* Mutant: a card of None is sent as the pair (0, 0).
send_game_packet_sentinel(w, result, card, netok) ==
    IF ~netok THEN [exc |-> "OSError", wire |-> w]
    ELSE IF card = None
    THEN [exc |-> "none", wire |-> Append(w, pack_server_payload(result, 0, 0))]
    ELSE [exc |-> "none",
          wire |-> Append(w, pack_server_payload(result, card[1], card[2]))]

\* send_game_packet: unpacking a card of None raises TypeError before
\* anything is packed or sent; sendall raises OSError when the connection
\* is broken (netok false); otherwise the packet is appended to the bytes
\* written to the connection.
send_game_packet(w, result, card, netok) ==
    IF card = None THEN [exc |-> "TypeError", wire |-> w]
    ELSE IF ~netok THEN [exc |-> "OSError", wire |-> w]
    ELSE [exc |-> "none",
          wire |-> Append(w, pack_server_payload(result, card[1], card[2]))]

\* BlackjackGame.get_winner (game_logic.py): the result code from the two
\* hands, the player's bust tested first.
get_winner(p_cards, d_cards) ==
    LET player_sum == calculate_hand(p_cards)
        dealer_total == calculate_hand(d_cards)
    IN IF player_sum > 21 THEN 2
       ELSE IF dealer_total > 21 THEN 3
       ELSE IF player_sum > dealer_total THEN 3
       ELSE IF dealer_total > player_sum THEN 2
       ELSE 1

\* Mutant: the dealer-wins comparison is made before the dealer-bust test.
Winner_compareFirst(player_final, dealer_final) ==
    IF dealer_final > player_final THEN 2
    ELSE IF dealer_final > 21 THEN 3
    ELSE IF player_final > dealer_final THEN 3
    ELSE 1

\* The result code of lines 233-243.
Winner(player_final, dealer_final) ==
    IF dealer_final > 21 THEN 3
    ELSE IF player_final > dealer_final THEN 3
    ELSE IF dealer_final > player_final THEN 2
    ELSE 1

\* Mutant: the player's loop goes on at 21; only a bust ends it.
PlayerLoopEnds_over21(sum) == sum > 21

\* The test at the top of the player's loop, line 156.
PlayerLoopEnds(sum) == sum >= 21

\* Mutant: the bust threshold is off by one.
PlayerBusted_off(sum) == sum > 22

\* The bust tests of lines 157 and 180.
PlayerBusted(sum) == sum > 21

\* Mutant: the game object of the round before is used again while it has
\* cards.
NewGame_reuse(old, s) == IF old = <<>> THEN Shuffled(s) ELSE old

\* Line 132, game = BlackjackGame(): a new object whose deck is a full set
\* in the order random.shuffle gives; the deck of the round before (old)
\* is not reachable from it.
NewGame(old, s) == Shuffled(s)

\* Mutant: the cards are dealt alternately, player, dealer, player, dealer.
InitialDeal_alternate(start, fresh) ==
    LET d1 == draw_card(start, fresh)
        d2 == draw_card(d1.deck, fresh)
        d3 == draw_card(d2.deck, fresh)
        d4 == draw_card(d3.deck, fresh)
    IN [player |-> << d1.card, d3.card >>,
        dealer |-> << d2.card, d4.card >>,
        deck |-> d4.deck]

\* Lines 140-143: four draws, player, player, dealer, dealer.
InitialDeal(start, fresh) ==
    LET d1 == draw_card(start, fresh)
        d2 == draw_card(d1.deck, fresh)
        d3 == draw_card(d2.deck, fresh)
        d4 == draw_card(d3.deck, fresh)
    IN [player |-> << d1.card, d2.card >>,
        dealer |-> << d3.card, d4.card >>,
        deck |-> d4.deck]

\* Mutant: the dealer's loop has no exit.
DealerMustDraw_always(sum) == TRUE

\* Mutant: the dealer also draws on 17.
DealerMustDraw_on17(sum) == sum <= 17

\* The dealer's loop condition, line 213.
DealerMustDraw(sum) == sum < 17

\* ------------------------------------------------------------------ state
VARIABLES
    pc,             \* where handle_client / play_one_round stands
    active_players, \* the global counter
    peer_state,     \* "new": nothing sent yet, "playing", "closed"
    inbox,          \* messages the peer has sent and the server not yet read
    num_rounds,     \* rounds of the decoded Request
    game_num,       \* number of the current round (0 before the first)
    deck,           \* game.deck of the current round
    player_cards,
    dealer_cards,
    dealer_sum,
    new_card,       \* the card a Hittt or the dealer has just drawn
    winner,         \* the result code chosen at line 233-243 (0: none yet)
    wire,           \* the packets written to the connection, in order
    exc,            \* the exception that ended the session ("none": none)
    closed,         \* client_socket.close() has run
    round_base,     \* history: Len(wire) when each round started
    shuffled,       \* history: the deck of this round as it was shuffled
    last_recv       \* history: what the last PlayerTurn read did, or
                    \* "drained" when the round began by dropping queued bytes

vars == << pc, active_players, peer_state, inbox, num_rounds, game_num, deck,
           player_cards, dealer_cards, dealer_sum, new_card, winner, wire, exc,
           closed, round_base, shuffled, last_recv >>

roundVars == << deck, player_cards, dealer_cards, dealer_sum, new_card, winner,
                shuffled >>

\* The server with several connections: the accept loop, the Broadcaster,
\* the thread pool and the sessions its workers run.
VARIABLES
    sess,           \* per connection: where its handle_client stands, its
                    \* locals, what its current round wrote to the socket
    games,          \* per BlackjackGame instance: its deck
    lock,           \* active_players_lock: 0 when free, else the holder
                    \* (in the pool view 1: a worker thread holds it)
    work_queue,     \* the pool's queue: connections submitted, not yet started
    accept_loop,    \* "accepting", "timed_out" (in the handler of
                    \* line 323), "stopped" (the loop was left) or
                    \* "returned" (start_server is over); in the pool
                    \* view also, inside thread_pool.submit, "submitting"
                    \* (the call is in the queue), "starting" (a thread
                    \* is to be started) and "adding" (it is started and
                    \* not yet in the pool's set), and "joining" (inside
                    \* thread_pool.shutdown, waiting for the threads)
    broadcaster,    \* "sending" or "stopped"
    conn,           \* per connection of the pool view: "none" (not yet
                    \* arrived), "queued" or "handed" (to a worker thread)
    pool            \* the pool view of thread_pool: its worker threads
                    \* and the calls of handle_client they are in

svars == << sess, games, lock, work_queue, accept_loop, broadcaster, conn, pool >>

\* The codec, the hand value and the deck taken as functions: one call at a
\* time, on an input drawn at the start.
VARIABLES
    fn,             \* "none": nothing is called; "input": not yet called;
                    \* else what the last call was
    arg,            \* [f |-> kind of input, x |-> the input] of the call
    res             \* what the last call returned

pvars == << fn, arg, res >>
allvars == << vars, svars, pvars >>

\* ------------------------------------------------------------------- peer
\* "Bot-1"
BotName == <<66, 111, 116, 45, 49>>
BadCookie(m) == <<m[1], m[2], m[3], (m[4] + 1) % 256>> \o SubSeq(m, 5, Len(m))

\* What a peer sends first: a Request for 0..MaxRounds rounds, or one with
\* a wrong cookie.
RequestMsgs ==
    { pack_request(n, BotName) : n \in 0..MaxRounds }
        \cup { BadCookie(pack_request(1, BotName)) }

\* What a peer sends afterwards: Hittt, Stand, a well-formed decision with
\* another token ("Hello"), one whose token is not UTF-8, one with a wrong
\* cookie.
NonUtf8Decision == MAGIC_COOKIE \o <<MSG_PAYLOAD, 255, 255, 255, 255, 255>>
\* The tokens the clients send (client_console.py lines 301 and 304).
ClientHittt == <<72, 105, 116, 116, 116>>
ClientStand == <<83, 116, 97, 110, 100>>
HitttMsg == pack_client_payload(ClientHittt)
StandMsg == pack_client_payload(ClientStand)
DecisionMsgs ==
    { HitttMsg, StandMsg,
      pack_client_payload(<<72, 101, 108, 108, 111>>),
      NonUtf8Decision,
      BadCookie(StandMsg) }

RECURSIVE Flatten(_)
Flatten(q) == IF q = <<>> THEN <<>> ELSE q[1] \o Flatten(Tail(q))

\* Mutant: a read returns one message, however many are queued.
RecvData_framed(q) == IF q = <<>> THEN <<>> ELSE q[1]

\* sock.recv(1024) on a connection with data queued: at most 1024 bytes
\* are returned, the rest stays queued.
RecvData(q) ==
    LET all == Flatten(q)
    IN IF Len(all) <= RECV_BUFSIZE THEN all ELSE SubSeq(all, 1, RECV_BUFSIZE)
RecvRest(q) ==
    LET all == Flatten(q)
    IN IF Len(all) <= RECV_BUFSIZE THEN <<>>
       ELSE << SubSeq(all, RECV_BUFSIZE + 1, Len(all)) >>

\* sendall can fail only once the peer has closed its end.
NetOk == IF peer_state = "closed" THEN BOOLEAN ELSE {TRUE}

PeerSend ==
    /\ UNCHANGED << svars, pvars >>
    /\ ~closed
    /\ peer_state # "closed"
    /\ Len(inbox) < MaxQueued
    /\ \E m \in (IF peer_state = "new" THEN RequestMsgs ELSE DecisionMsgs) :
          inbox' = Append(inbox, m)
    /\ peer_state' = "playing"
    /\ UNCHANGED << pc, active_players, num_rounds, game_num, wire, exc, closed,
                    round_base, last_recv >>
    /\ UNCHANGED roundVars

PeerClose ==
    /\ UNCHANGED << svars, pvars >>
    /\ peer_state # "closed"
    /\ peer_state' = "closed"
    /\ UNCHANGED << pc, active_players, inbox, num_rounds, game_num, wire, exc,
                    closed, round_base, last_recv >>
    /\ UNCHANGED roundVars

\* ------------------------------------------------------------ the server
\* Bounds: the connections of the per-session view and of the pool view.
NumSessions == 2
MaxConns == 12

MAX_CONCURRENT_CLIENTS == 10

Sessions == 1..NumSessions
Conns == 1..MaxConns

\* Line 29: the pool as ThreadPoolExecutor.__init__ leaves it.  No thread
\* is started before the first submit.
\*   started         worker threads on which Thread.start was called
\*   threads         len(thread_pool._threads): worker threads started and
\*                   added to the pool's set
\*   idle_semaphore  the value of thread_pool._idle_semaphore
\*   exited          worker threads that have returned
\*   entered         calls of handle_client waiting for the lock of line 259
\*   holder          what the worker holding active_players_lock is at:
\*                   "inc" (lines 260-261), "dec" (lines 292-293) or "none"
\*   running         calls between line 263 and line 291
\*   closing         calls at lines 295-296, before their return
\*   returned        calls that have returned
\*   finished        worker threads whose call has returned and that have
\*                   not yet raised the idle semaphore
NewPool ==
    [started |-> 0, threads |-> 0, idle_semaphore |-> 0, exited |-> 0,
     entered |-> 0, holder |-> "none", running |-> 0, closing |-> 0,
     returned |-> 0, finished |-> 0]

\* The locals of a handle_client call that has not begun.
NewSession ==
    [pc |-> "none", tmp |-> 0, num_rounds |-> 0, game_num |-> 0,
     player_cards |-> <<>>, dealer_cards |-> <<>>, dealer_sum |-> 0,
     shuffled |-> <<>>, wire |-> <<>>, exc |-> "none", closed |-> FALSE]

\* Module load and the start of start_server: counter 0, lock free, pool
\* idle, Broadcaster started, nothing accepted.
ServerInit ==
    /\ sess = [w \in Sessions |-> NewSession]
    /\ games = [w \in Sessions |-> <<>>]
    /\ lock = 0
    /\ work_queue = <<>>
    /\ accept_loop = "accepting"
    /\ broadcaster = "sending"
    /\ conn = [c \in Conns |-> "none"]
    /\ pool = NewPool

\* ---------------------------------------------------------- handle_client
\* No function is under call.
FunIdle == fn = "none" /\ arg = None /\ res = None

\* A connection just accepted: nothing read, nothing dealt, nothing sent.
SessionInit ==
    /\ pc = "enter"
    /\ active_players = 0
    /\ peer_state = "new"
    /\ inbox = <<>>
    /\ num_rounds = 0
    /\ game_num = 0
    /\ deck = <<>>
    /\ player_cards = <<>>
    /\ dealer_cards = <<>>
    /\ dealer_sum = 0
    /\ new_card = None
    /\ winner = 0
    /\ wire = <<>>
    /\ exc = "none"
    /\ closed = FALSE
    /\ round_base = <<>>
    /\ shuffled = <<>>
    /\ last_recv = "none"

Init == ServerInit /\ SessionInit /\ FunIdle

\* Mutant: an exception ends the round only; the loop of line 280 goes on.
Raise_roundOnly(e) == /\ exc' = e
                      /\ pc' = "for_loop"

\* An exception leaves play_one_round and is caught at line 287.
Raise(e) == /\ exc' = e
            /\ pc' = "finally"

\* Lines 259-261.
Enter ==
    /\ UNCHANGED << svars, pvars >>
    /\ pc = "enter"
    /\ active_players' = active_players + 1
    /\ pc' = "handshake"
    /\ UNCHANGED << peer_state, inbox, num_rounds, game_num, wire, exc, closed,
                    round_base, last_recv >>
    /\ UNCHANGED roundVars

\* Lines 267-277: the read returns what is queued, or b'' once the peer has
\* closed.
Handshake ==
    /\ UNCHANGED << svars, pvars >>
    /\ pc = "handshake"
    /\ inbox # <<>> \/ peer_state = "closed"
    /\ LET request_data == RecvData(inbox)
           valid_request == unpack_request(request_data)
       IN /\ inbox' = RecvRest(inbox)
          /\ IF valid_request.exc # "none"
             THEN Raise(valid_request.exc) /\ UNCHANGED num_rounds
             ELSE IF valid_request.val = None
             THEN pc' = "finally" /\ UNCHANGED << exc, num_rounds >>
             ELSE /\ num_rounds' = valid_request.val[1]
                  /\ pc' = "for_loop"
                  /\ UNCHANGED exc
    /\ UNCHANGED << active_players, peer_state, game_num, wire, closed,
                    round_base, last_recv >>
    /\ UNCHANGED roundVars

\* Line 268 raising socket.timeout: nothing arrived within CLIENT_TIMEOUT.
HandshakeTimeout ==
    /\ UNCHANGED << svars, pvars >>
    /\ pc = "handshake"
    /\ inbox = <<>> /\ peer_state # "closed"
    /\ Raise("timeout")
    /\ UNCHANGED << active_players, peer_state, inbox, num_rounds, game_num,
                    wire, closed, round_base, last_recv >>
    /\ UNCHANGED roundVars

\* Lines 280-285: the next round is started, or the loop is over.
ForLoop ==
    /\ UNCHANGED << svars, pvars >>
    /\ pc = "for_loop"
    /\ IF game_num < num_rounds
       THEN /\ game_num' = game_num + 1
            /\ pc' = "round_start"
       ELSE /\ pc' = "finally"
            /\ UNCHANGED game_num
    /\ UNCHANGED << active_players, peer_state, inbox, num_rounds, wire, exc,
                    closed, round_base, last_recv >>
    /\ UNCHANGED roundVars

\* Lines 289-293: the counter is decremented under the lock; the socket is
\* still open when the lock is released.
Finally ==
    /\ UNCHANGED << svars, pvars >>
    /\ pc = "finally"
    /\ active_players' = active_players - 1
    /\ pc' = "close"
    /\ UNCHANGED << peer_state, inbox, num_rounds, game_num, wire, exc, closed,
                    round_base, last_recv >>
    /\ UNCHANGED roundVars

\* Line 296: the socket is closed and handle_client returns.
Close ==
    /\ UNCHANGED << svars, pvars >>
    /\ pc = "close"
    /\ closed' = TRUE
    /\ pc' = "done"
    /\ UNCHANGED << active_players, peer_state, inbox, num_rounds, game_num,
                    wire, exc, round_base, last_recv >>
    /\ UNCHANGED roundVars

\* --------------------------------------------------------- play_one_round
\* Mutant: nothing is read before the round; what is queued stays queued.
drain_socket_none(q) == q

\* Lines 112-124: the socket is made non-blocking and read until a read
\* gives nothing (b'' or BlockingIOError); what was read is dropped.
drain_socket(q) == <<>>

\* Lines 129-130: the queued bytes are drained; the thread then sleeps
\* 0.8 s, and what the peer sends meanwhile stays queued.
RoundStart ==
    /\ UNCHANGED << svars, pvars >>
    /\ pc = "round_start"
    /\ inbox' = drain_socket(inbox)
    /\ last_recv' = IF inbox # <<>> THEN "drained" ELSE "none"
    /\ pc' = "deal"
    /\ UNCHANGED << active_players, peer_state, num_rounds, game_num, wire, exc,
                    closed, round_base >>
    /\ UNCHANGED roundVars

\* Lines 132-143: a new shuffled deck is made and four cards are drawn:
\* player, player, dealer, dealer.
Deal ==
    /\ UNCHANGED << svars, pvars >>
    /\ pc = "deal"
    /\ \E s \in ShuffleIds, f \in ShuffleIds :
          LET deal == InitialDeal(NewGame(deck, s), Shuffled(f))
          IN /\ player_cards' = deal.player
             /\ dealer_cards' = deal.dealer
             /\ deck' = deal.deck
             /\ shuffled' = Shuffled(s)
    /\ dealer_sum' = 0
    /\ new_card' = None
    /\ winner' = 0
    /\ round_base' = Append(round_base, Len(wire))
    /\ pc' = "deal1"
    /\ UNCHANGED << active_players, peer_state, inbox, num_rounds, game_num,
                    wire, exc, closed, last_recv >>

\* Mutant: the dealer's first card is sent before the player's second.
DealCard_dealerSecond(at) ==
    IF at = "deal1" THEN player_cards[1]
    ELSE IF at = "deal2" THEN dealer_cards[1]
    ELSE player_cards[2]

\* Lines 145-149: the player's two cards and the dealer's first card.
DealCard(at) ==
    IF at = "deal1" THEN player_cards[1]
    ELSE IF at = "deal2" THEN player_cards[2]
    ELSE dealer_cards[1]
DealNext(at) ==
    IF at = "deal1" THEN "deal2"
    ELSE IF at = "deal2" THEN "deal3"
    ELSE "player_top"

DealSend ==
    /\ UNCHANGED << svars, pvars >>
    /\ pc \in {"deal1", "deal2", "deal3"}
    /\ \E netok \in NetOk :
          LET r == send_game_packet(wire, 0, DealCard(pc), netok)
          IN /\ wire' = r.wire
             /\ IF r.exc # "none" THEN Raise(r.exc)
                ELSE pc' = DealNext(pc) /\ UNCHANGED exc
    /\ UNCHANGED << active_players, peer_state, inbox, num_rounds, game_num,
                    closed, round_base, last_recv >>
    /\ UNCHANGED roundVars

\* Lines 154-164: the top of the player's loop.
PlayerTurnTop ==
    /\ UNCHANGED << svars, pvars >>
    /\ pc = "player_top"
    /\ LET player_sum == calculate_points_safe(player_cards)
       IN IF PlayerLoopEnds(player_sum)
          THEN IF PlayerBusted(player_sum)
               THEN \E netok \in NetOk :
                       LET r == send_game_packet(wire, 2, None, netok)
                       IN /\ wire' = r.wire
                          /\ IF r.exc # "none" THEN Raise(r.exc)
                             ELSE pc' = "for_loop" /\ UNCHANGED exc
               ELSE /\ pc' = "dealer_reveal"
                    /\ UNCHANGED << wire, exc >>
          ELSE /\ pc' = "recv_decision"
               /\ UNCHANGED << wire, exc >>
    /\ UNCHANGED << active_players, peer_state, inbox, num_rounds, game_num,
                    closed, round_base, last_recv >>
    /\ UNCHANGED roundVars

\* Line 168 once the peer has closed and nothing is queued: recv returns b''
\* (line 170 raises "Client disconnected"), or, when the peer closed with
\* bytes of the server unread, raises ConnectionResetError, an OSError.
RecvAtClose(sent) ==
    IF sent = <<>> THEN {"Client disconnected"}
    ELSE {"Client disconnected", "OSError"}

\* Lines 167-196: one read and what the decision does.
RecvDecision ==
    /\ UNCHANGED << svars, pvars >>
    /\ pc = "recv_decision"
    /\ inbox # <<>> \/ peer_state = "closed"
    /\ LET data == RecvData(inbox)
           decision == unpack_client_payload(data)
       IN /\ inbox' = RecvRest(inbox)
          /\ IF data = <<>>
             THEN /\ \E e \in RecvAtClose(wire) : Raise(e)
                  /\ last_recv' = "raised"
                  /\ UNCHANGED << deck, player_cards, new_card, shuffled >>
             ELSE IF decision.exc # "none"
             THEN /\ Raise(decision.exc)
                  /\ last_recv' = "raised"
                  /\ UNCHANGED << deck, player_cards, new_card, shuffled >>
             ELSE IF decision.val = HitttStr
             THEN \E f \in ShuffleIds :
                     LET d == draw_card(deck, Shuffled(f))
                     IN /\ deck' = d.deck
                        /\ new_card' = d.card
                        /\ player_cards' = Append(player_cards, d.card)
                        /\ last_recv' = "Hittt"
                        /\ pc' = "hit_send"
                        /\ UNCHANGED << exc, shuffled >>
             ELSE IF decision.val = StandStr
             THEN /\ pc' = "dealer_reveal"
                  /\ last_recv' = "Stand"
                  /\ UNCHANGED << deck, player_cards, new_card, shuffled, exc >>
             ELSE /\ pc' = "player_top"
                  /\ last_recv' = IF decision.val # None THEN "unknown"
                                  ELSE IF Len(data) = 10 THEN "invalid"
                                  ELSE "wrong size"
                  /\ UNCHANGED << deck, player_cards, new_card, shuffled, exc >>
    /\ UNCHANGED << active_players, peer_state, num_rounds, game_num, wire,
                    closed, round_base, dealer_cards, dealer_sum, winner >>

\* Line 168 raising socket.timeout, turned into "Game Timeout" at line 200.
RecvDecisionTimeout ==
    /\ UNCHANGED << svars, pvars >>
    /\ pc = "recv_decision"
    /\ inbox = <<>> /\ peer_state # "closed"
    /\ Raise("Game Timeout")
    /\ last_recv' = "raised"
    /\ UNCHANGED << active_players, peer_state, inbox, num_rounds, game_num,
                    wire, closed, round_base >>
    /\ UNCHANGED roundVars

\* Lines 180-189: the drawn card is sent; a bust goes on to line 183.
HitSend ==
    /\ UNCHANGED << svars, pvars >>
    /\ pc = "hit_send"
    /\ \E netok \in NetOk :
          LET r == send_game_packet(wire, 0, new_card, netok)
              new_sum == calculate_points_safe(player_cards)
          IN /\ wire' = r.wire
             /\ IF r.exc # "none" THEN Raise(r.exc)
                ELSE /\ pc' = IF PlayerBusted(new_sum) THEN "bust_send"
                                ELSE "player_top"
                     /\ UNCHANGED exc
    /\ UNCHANGED << active_players, peer_state, inbox, num_rounds, game_num,
                    closed, round_base, last_recv >>
    /\ UNCHANGED roundVars

\* Lines 183-186.
BustSend ==
    /\ UNCHANGED << svars, pvars >>
    /\ pc = "bust_send"
    /\ \E netok \in NetOk :
          LET r == send_game_packet(wire, 2, None, netok)
          IN /\ wire' = r.wire
             /\ IF r.exc # "none" THEN Raise(r.exc)
                ELSE pc' = "for_loop" /\ UNCHANGED exc
    /\ UNCHANGED << active_players, peer_state, inbox, num_rounds, game_num,
                    closed, round_base, last_recv >>
    /\ UNCHANGED roundVars

\* Lines 206-208: the dealer's second card is revealed; the thread then
\* sleeps 0.5 s.
DealerReveal ==
    /\ UNCHANGED << svars, pvars >>
    /\ pc = "dealer_reveal"
    /\ \E netok \in NetOk :
          LET r == send_game_packet(wire, 0, dealer_cards[2], netok)
          IN /\ wire' = r.wire
             /\ IF r.exc # "none" THEN Raise(r.exc)
                ELSE pc' = "dealer_sum" /\ UNCHANGED exc
    /\ UNCHANGED << active_players, peer_state, inbox, num_rounds, game_num,
                    closed, round_base, last_recv >>
    /\ UNCHANGED roundVars

\* Line 210: the dealer's hand is valued.
DealerSum ==
    /\ UNCHANGED << svars, pvars >>
    /\ pc = "dealer_sum"
    /\ dealer_sum' = calculate_points_safe(dealer_cards)
    /\ pc' = "dealer_loop"
    /\ UNCHANGED << active_players, peer_state, inbox, num_rounds, game_num,
                    wire, exc, closed, round_base, last_recv, deck,
                    player_cards, dealer_cards, new_card, winner, shuffled >>

\* Lines 213-216: the dealer draws while the loop condition holds.
DealerLoop ==
    /\ UNCHANGED << svars, pvars >>
    /\ pc = "dealer_loop"
    /\ IF DealerMustDraw(dealer_sum)
       THEN \E f \in ShuffleIds :
               LET d == draw_card(deck, Shuffled(f))
               IN /\ deck' = d.deck
                  /\ new_card' = d.card
                  /\ dealer_cards' = Append(dealer_cards, d.card)
                  /\ dealer_sum' = calculate_points_safe(dealer_cards')
                  /\ pc' = "dealer_send"
                  /\ UNCHANGED shuffled
       ELSE /\ pc' = "resolve"
            /\ UNCHANGED << deck, new_card, dealer_cards, dealer_sum, shuffled >>
    /\ UNCHANGED << active_players, peer_state, inbox, num_rounds, game_num,
                    wire, exc, closed, round_base, last_recv, player_cards,
                    winner >>

\* Line 220.
DealerSend ==
    /\ UNCHANGED << svars, pvars >>
    /\ pc = "dealer_send"
    /\ \E netok \in NetOk :
          LET r == send_game_packet(wire, 0, new_card, netok)
          IN /\ wire' = r.wire
             /\ IF r.exc # "none" THEN Raise(r.exc)
                ELSE pc' = "dealer_loop" /\ UNCHANGED exc
    /\ UNCHANGED << active_players, peer_state, inbox, num_rounds, game_num,
                    closed, round_base, last_recv >>
    /\ UNCHANGED roundVars

\* Lines 228-247: the result code is chosen and sent.
Resolve ==
    /\ UNCHANGED << svars, pvars >>
    /\ pc = "resolve"
    /\ LET player_final == calculate_points_safe(player_cards)
           dealer_final == dealer_sum
       IN winner' = Winner(player_final, dealer_final)
    /\ \E netok \in NetOk :
          LET r == send_game_packet(wire, winner', None, netok)
          IN /\ wire' = r.wire
             /\ IF r.exc # "none" THEN Raise(r.exc)
                ELSE pc' = "for_loop" /\ UNCHANGED exc
    /\ UNCHANGED << active_players, peer_state, inbox, num_rounds, game_num,
                    closed, round_base, last_recv, deck, player_cards,
                    dealer_cards, dealer_sum, new_card, shuffled >>

Next ==
    \/ PeerSend
    \/ PeerClose
    \/ Enter
    \/ Handshake
    \/ HandshakeTimeout
    \/ ForLoop
    \/ RoundStart
    \/ Deal
    \/ DealSend
    \/ PlayerTurnTop
    \/ RecvDecision
    \/ RecvDecisionTimeout
    \/ HitSend
    \/ BustSend
    \/ DealerReveal
    \/ DealerSum
    \/ DealerLoop
    \/ DealerSend
    \/ Resolve
    \/ Finally
    \/ Close

\* One connection, followed step by step; the rest of the server is idle.
Spec == Init /\ [][Next]_allvars

\* ------------------------------------------- the server, several sessions
\* The single-connection variables, which the server view leaves alone.
oneVars == << pc, peer_state, inbox, num_rounds, game_num, deck, player_cards,
              dealer_cards, dealer_sum, new_card, winner, wire, exc, closed,
              round_base, shuffled, last_recv >>

\* Mutant: the lock can be taken while another worker holds it.
CanAcquire_always(l) == TRUE

\* `with active_players_lock:` (lines 259 and 291) enters when the lock is
\* free.
CanAcquire(l) == l = 0

\* Mutant: a thread per connection; a worker is always to be had.
WorkerFree_always(busy) == TRUE

\* ThreadPoolExecutor(max_workers=MAX_CONCURRENT_CLIENTS), line 29: the pool
\* runs at most that many calls at a time.
WorkerFree(busy) == busy < MAX_CONCURRENT_CLIENTS

\* Mutant: the pool takes the connection submitted last.
NextWork_last(q) == q[Len(q)]

\* The pool's queue is first in, first out.
NextWork(q) == Head(q)
Remaining(q, c) == SelectSeq(q, LAMBDA x : x # c)

\* Mutant: one BlackjackGame instance serves every session.
GameOf_shared(w) == 1

\* Line 132: the BlackjackGame of a round is a local of the worker's call.
GameOf(w) == w

\* A call that has raised: the frame of play_one_round (hands, game, what
\* the round wrote) is left.
RoundLeft(s, e) ==
    [s EXCEPT !.exc = e, !.pc = "except", !.player_cards = <<>>,
              !.dealer_cards = <<>>, !.dealer_sum = 0, !.shuffled = <<>>,
              !.wire = <<>>]

\* Mutant: the exception is handled for the whole server; every session
\* ends.
Caught_all(ss, w, e) == [v \in DOMAIN ss |-> RoundLeft(ss[v], e)]

\* Line 287: an exception raised in worker w's call is caught in that call.
Caught(ss, w, e) == [ss EXCEPT ![w] = RoundLeft(@, e)]

\* The game of a round that was left is no longer reachable.
GamesLeft(g, w) ==
    IF sess'[w].pc = "except" THEN [g EXCEPT ![GameOf(w)] = <<>>] ELSE g

\* The deck orders random.shuffle gives in this view: session w plays with
\* one of them.
SessionDecks == <<13, 2, 3>>
SessionShuffles(w) == { SessionDecks[((w - 1) % Len(SessionDecks)) + 1] }

\* What a peer sends first in this view.
ServerRequests ==
    { pack_request(0, BotName), pack_request(1, BotName),
      BadCookie(pack_request(1, BotName)) }

\* The workers that have begun handle_client and not yet returned.
Running == { w \in Sessions : sess[w].pc \notin {"none", "queued", "done"} }

\* Line 330: thread_pool.shutdown(wait=True) returns once no submitted call
\* is queued or running.
PoolDrained(q, running) == q = <<>> /\ running = {}

\* Lines 319-321: a connection is accepted and submitted to the pool.
Accept ==
    /\ accept_loop = "accepting"
    /\ \E w \in Sessions :
          /\ sess[w].pc = "none"
          /\ \A v \in Sessions : v < w => sess[v].pc # "none"
          /\ sess' = [sess EXCEPT ![w].pc = "queued"]
          /\ work_queue' = Append(work_queue, w)
    /\ UNCHANGED << games, lock, accept_loop, broadcaster, conn, pool, active_players >>
    /\ UNCHANGED << oneVars, pvars >>

\* Lines 310, 319 and 323: no connection arrived within the second that
\* settimeout(1.0) allows; accept raises socket.timeout.
AcceptTimeout ==
    /\ accept_loop = "accepting"
    /\ accept_loop' = "timed_out"
    /\ UNCHANGED << sess, games, lock, work_queue, broadcaster, conn, pool,
                    active_players >>
    /\ UNCHANGED << oneVars, pvars >>

\* Mutant: the timeout is handled as any other error; the loop is left.
AcceptContinue_break ==
    /\ accept_loop = "timed_out"
    /\ accept_loop' = "stopped"
    /\ UNCHANGED << sess, games, lock, work_queue, broadcaster, conn, pool,
                    active_players >>
    /\ UNCHANGED << oneVars, pvars >>

\* Line 324: continue; the loop calls accept again.
AcceptContinue ==
    /\ accept_loop = "timed_out"
    /\ accept_loop' = "accepting"
    /\ UNCHANGED << sess, games, lock, work_queue, broadcaster, conn, pool,
                    active_players >>
    /\ UNCHANGED << oneVars, pvars >>

\* Lines 325-327: accept raising anything but a timeout ends the loop.
AcceptError ==
    /\ accept_loop = "accepting"
    /\ accept_loop' = "stopped"
    /\ UNCHANGED << sess, games, lock, work_queue, broadcaster, conn, pool,
                    active_players >>
    /\ UNCHANGED << oneVars, pvars >>

\* Lines 328-331: the finally block of start_server. The pool is shut down
\* and waited for, then the listening socket is closed and the function
\* returns.
Shutdown ==
    /\ accept_loop = "stopped"
    /\ PoolDrained(work_queue, Running)
    /\ accept_loop' = "returned"
    /\ UNCHANGED << sess, games, lock, work_queue, broadcaster, conn, pool,
                    active_players >>
    /\ UNCHANGED << oneVars, pvars >>

\* Lines 62-67: an offer is packed and sent, then the thread sleeps.
Broadcast ==
    /\ broadcaster = "sending"
    /\ broadcaster' = "sending"
    /\ UNCHANGED << sess, games, lock, work_queue, accept_loop, conn, pool,
                    active_players >>
    /\ UNCHANGED << oneVars, pvars >>

\* Lines 68-71: sendto raising leaves the loop; the thread ends.
BroadcastError ==
    /\ broadcaster = "sending"
    /\ broadcaster' = "stopped"
    /\ UNCHANGED << sess, games, lock, work_queue, accept_loop, conn, pool,
                    active_players >>
    /\ UNCHANGED << oneVars, pvars >>

\* ThreadPoolExecutor(max_workers=MAX_CONCURRENT_CLIENTS), line 29: a free
\* worker takes the oldest submitted connection and calls handle_client.
WStart(w) ==
    /\ work_queue # <<>> /\ NextWork(work_queue) = w
    /\ WorkerFree(Cardinality(Running))
    /\ work_queue' = Remaining(work_queue, w)
    /\ sess' = [sess EXCEPT ![w].pc = "enter"]
    /\ UNCHANGED << games, lock, accept_loop, broadcaster, conn, pool, active_players >>
    /\ UNCHANGED << oneVars, pvars >>

\* Lines 259 and 291: the lock is taken.
WLockAcquire(w) ==
    /\ sess[w].pc \in {"enter", "finally"}
    /\ CanAcquire(lock)
    /\ lock' = w
    /\ sess' = [sess EXCEPT ![w].pc = IF sess[w].pc = "enter" THEN "inc_load"
                                      ELSE "dec_load"]
    /\ UNCHANGED << games, work_queue, accept_loop, broadcaster, conn, pool,
                    active_players >>
    /\ UNCHANGED << oneVars, pvars >>

\* Lines 260 and 292: the counter is read.
WCounterLoad(w) ==
    /\ sess[w].pc \in {"inc_load", "dec_load"}
    /\ sess' = [sess EXCEPT ![w].tmp = active_players,
                            ![w].pc = IF sess[w].pc = "inc_load"
                                      THEN "inc_store" ELSE "dec_store"]
    /\ UNCHANGED << games, lock, work_queue, accept_loop, broadcaster, conn, pool,
                    active_players >>
    /\ UNCHANGED << oneVars, pvars >>

\* Lines 260-261 and 292-293: the new value is written and the lock
\* released at the end of the with block.
WCounterStore(w) ==
    /\ sess[w].pc \in {"inc_store", "dec_store"}
    /\ active_players' = IF sess[w].pc = "inc_store" THEN sess[w].tmp + 1
                         ELSE sess[w].tmp - 1
    /\ lock' = 0
    /\ sess' = [sess EXCEPT ![w].tmp = 0,
                            ![w].pc = IF sess[w].pc = "inc_store"
                                      THEN "handshake" ELSE "close"]
    /\ UNCHANGED << games, work_queue, accept_loop, broadcaster, conn, pool >>
    /\ UNCHANGED << oneVars, pvars >>

\* Mutant: the handler returns; the finally block is not run.
WExcept_noFinally(w) ==
    /\ sess[w].pc = "except"
    /\ sess' = [sess EXCEPT ![w].exc = "none", ![w].pc = "close"]
    /\ UNCHANGED << games, lock, work_queue, accept_loop, broadcaster, conn, pool,
                    active_players >>
    /\ UNCHANGED << oneVars, pvars >>

\* Line 288 and the end of the except clause: the error is logged and the
\* exception released.
WExcept(w) ==
    /\ sess[w].pc = "except"
    /\ sess' = [sess EXCEPT ![w].exc = "none", ![w].pc = "finally"]
    /\ UNCHANGED << games, lock, work_queue, accept_loop, broadcaster, conn, pool,
                    active_players >>
    /\ UNCHANGED << oneVars, pvars >>

\* Line 296, and the return of handle_client.
WClose(w) ==
    /\ sess[w].pc = "close"
    /\ sess' = [sess EXCEPT ![w] = [NewSession EXCEPT !.closed = TRUE,
                                                      !.pc = "done"]]
    /\ UNCHANGED << games, lock, work_queue, accept_loop, broadcaster, conn, pool,
                    active_players >>
    /\ UNCHANGED << oneVars, pvars >>

\* Lines 267-277: the first read times out, or returns a Request, other
\* bytes, or b''.
WHandshake(w) ==
    /\ sess[w].pc = "handshake"
    /\ \/ sess' = Caught(sess, w, "timeout")
       \/ \E request_data \in ServerRequests \cup {<<>>} :
          \E valid_request \in { unpack_request(request_data) } :
                sess' =
                  IF valid_request.exc # "none"
                  THEN Caught(sess, w, valid_request.exc)
                  ELSE IF valid_request.val = None
                  THEN [sess EXCEPT ![w].pc = "finally"]
                  ELSE [sess EXCEPT ![w].num_rounds = valid_request.val[1],
                                    ![w].pc = "for_loop"]
    /\ UNCHANGED << games, lock, work_queue, accept_loop, broadcaster, conn, pool,
                    active_players >>
    /\ UNCHANGED << oneVars, pvars >>

\* Lines 280-285.
WForLoop(w) ==
    /\ sess[w].pc = "for_loop"
    /\ sess' = IF sess[w].game_num < sess[w].num_rounds
               THEN [sess EXCEPT ![w].game_num = @ + 1,
                                 ![w].pc = "round_start"]
               ELSE [sess EXCEPT ![w].pc = "finally"]
    /\ UNCHANGED << games, lock, work_queue, accept_loop, broadcaster, conn, pool,
                    active_players >>
    /\ UNCHANGED << oneVars, pvars >>

\* Lines 129-130: the drain, then the wait of 0.8 s.  The view keeps no
\* queue of unread bytes; what a later read returns is chosen at the read.
WRoundStart(w) ==
    /\ sess[w].pc = "round_start"
    /\ sess' = [sess EXCEPT ![w].pc = "deal"]
    /\ UNCHANGED << games, lock, work_queue, accept_loop, broadcaster, conn, pool,
                    active_players >>
    /\ UNCHANGED << oneVars, pvars >>

\* Lines 132-143: a new game and the four draws.
WDeal(w) ==
    /\ sess[w].pc = "deal"
    /\ \E s \in SessionShuffles(w) :
       \E fresh \in { Shuffled(s) } :
       \E start \in { NewGame(games[GameOf(w)], s) } :
       \E deal \in { InitialDeal(start, fresh) } :
          /\ sess' = [sess EXCEPT ![w].player_cards = deal.player,
                                  ![w].dealer_cards = deal.dealer,
                                  ![w].dealer_sum = 0,
                                  ![w].shuffled = fresh,
                                  ![w].pc = "deal1"]
          /\ games' = [games EXCEPT ![GameOf(w)] = deal.deck]
    /\ UNCHANGED << lock, work_queue, accept_loop, broadcaster, conn, pool,
                    active_players >>
    /\ UNCHANGED << oneVars, pvars >>

\* The card that the send of lines 145, 147 and 149 carries.
DealtCard(me) ==
    IF me.pc = "deal1" THEN me.player_cards[1]
    ELSE IF me.pc = "deal2" THEN me.player_cards[2]
    ELSE me.dealer_cards[1]

\* Lines 145-150: one of the three sends of the opening cards and the wait
\* of 0.2 s after it.
WDealSend(w) ==
    /\ sess[w].pc \in {"deal1", "deal2", "deal3"}
    /\ \E me \in { sess[w] } :
       \E netok \in BOOLEAN :
       \E r \in { send_game_packet(me.wire, 0, DealtCard(me), netok) } :
       \E sent \in { [sess EXCEPT ![w].wire = r.wire] } :
          sess' = IF r.exc # "none" THEN Caught(sent, w, r.exc)
                  ELSE [sent EXCEPT ![w].pc =
                            IF me.pc = "deal1" THEN "deal2"
                            ELSE IF me.pc = "deal2" THEN "deal3"
                            ELSE "player_top"]
    /\ games' = GamesLeft(games, w)
    /\ UNCHANGED << lock, work_queue, accept_loop, broadcaster, conn, pool,
                    active_players >>
    /\ UNCHANGED << oneVars, pvars >>

\* Lines 153-203: one turn of the player's loop, up to the send of the card
\* of a Hittt (line 181 or 188) and the wait that follows it.
WPlayerTurn(w) ==
    /\ sess[w].pc = "player_top"
    /\ \E me \in { sess[w] } :
       \E player_sum \in { calculate_points_safe(me.player_cards) } :
          IF PlayerLoopEnds(player_sum)
          THEN /\ IF PlayerBusted(player_sum)
                  THEN sess' = [sess EXCEPT ![w].pc = "bust_send"]
                  ELSE sess' = [sess EXCEPT ![w].pc = "dealer_reveal"]
               /\ UNCHANGED games
          ELSE \/ /\ sess' = Caught(sess, w, "Game Timeout")
                  /\ games' = GamesLeft(games, w)
               \/ /\ \E e \in RecvAtClose(me.wire) : sess' = Caught(sess, w, e)
                  /\ games' = GamesLeft(games, w)
               \/ \E data \in DecisionMsgs :
                  \E decision \in { unpack_client_payload(data) } :
                     IF decision.exc # "none"
                     THEN /\ sess' = Caught(sess, w, decision.exc)
                          /\ games' = GamesLeft(games, w)
                     ELSE IF decision.val = HitttStr
                     THEN \E f \in SessionShuffles(w) :
                          \E d \in { draw_card(games[GameOf(w)], Shuffled(f)) } :
                          \E new_sum \in { calculate_points_safe(
                                             Append(me.player_cards, d.card)) } :
                          \E netok \in BOOLEAN :
                          \E r \in { send_game_packet(me.wire, 0, d.card, netok) } :
                          \E hit \in { [sess EXCEPT
                                          ![w].player_cards = Append(@, d.card),
                                          ![w].wire = r.wire] } :
                             /\ sess' =
                                  IF r.exc # "none" THEN Caught(hit, w, r.exc)
                                  ELSE IF PlayerBusted(new_sum)
                                  THEN [hit EXCEPT ![w].pc = "bust_send"]
                                  ELSE hit
                             /\ games' = GamesLeft(
                                    [games EXCEPT ![GameOf(w)] = d.deck], w)
                     ELSE IF decision.val = StandStr
                     THEN /\ sess' = [sess EXCEPT ![w].pc = "dealer_reveal"]
                          /\ UNCHANGED games
                     ELSE UNCHANGED << sess, games >>
    /\ UNCHANGED << lock, work_queue, accept_loop, broadcaster, conn, pool,
                    active_players >>
    /\ UNCHANGED << oneVars, pvars >>

\* Lines 159 and 183: the result of a busted player is sent after the wait,
\* and the round returns.
WBustSend(w) ==
    /\ sess[w].pc = "bust_send"
    /\ \E me \in { sess[w] } :
       \E netok \in BOOLEAN :
       \E r \in { send_game_packet(me.wire, 2, None, netok) } :
       \E sent \in { [sess EXCEPT ![w].wire = r.wire] } :
          sess' = IF r.exc # "none" THEN Caught(sent, w, r.exc)
                  ELSE [sent EXCEPT ![w].pc = "for_loop"]
    /\ games' = GamesLeft(games, w)
    /\ UNCHANGED << lock, work_queue, accept_loop, broadcaster, conn, pool,
                    active_players >>
    /\ UNCHANGED << oneVars, pvars >>

\* Lines 206-221: the reveal and the wait after it, the dealer's value
\* (line 210), then one turn of the dealer's loop.
WDealerTurn(w) ==
    /\ sess[w].pc \in {"dealer_reveal", "dealer_sum", "dealer_loop"}
    /\ \E me \in { sess[w] } :
          IF me.pc = "dealer_reveal"
          THEN /\ \E netok \in BOOLEAN :
                  \E r \in { send_game_packet(me.wire, 0, me.dealer_cards[2],
                                              netok) } :
                  \E sent \in { [sess EXCEPT ![w].wire = r.wire] } :
                     sess' = IF r.exc # "none" THEN Caught(sent, w, r.exc)
                             ELSE [sent EXCEPT ![w].pc = "dealer_sum"]
               /\ games' = GamesLeft(games, w)
          ELSE IF me.pc = "dealer_sum"
          THEN /\ sess' = [sess EXCEPT
                              ![w].dealer_sum =
                                  calculate_points_safe(me.dealer_cards),
                              ![w].pc = "dealer_loop"]
               /\ UNCHANGED games
          ELSE IF DealerMustDraw(me.dealer_sum)
          THEN \E netok \in BOOLEAN, f \in SessionShuffles(w) :
               \E d \in { draw_card(games[GameOf(w)], Shuffled(f)) } :
               \E cards \in { Append(me.dealer_cards, d.card) } :
               \E r \in { send_game_packet(me.wire, 0, d.card, netok) } :
               \E drawn \in { [sess EXCEPT
                                 ![w].dealer_cards = cards,
                                 ![w].dealer_sum = calculate_points_safe(cards),
                                 ![w].wire = r.wire] } :
                  /\ sess' = IF r.exc # "none" THEN Caught(drawn, w, r.exc)
                             ELSE drawn
                  /\ games' = GamesLeft(
                         [games EXCEPT ![GameOf(w)] = d.deck], w)
          ELSE /\ sess' = [sess EXCEPT ![w].pc = "resolve"]
               /\ UNCHANGED games
    /\ UNCHANGED << lock, work_queue, accept_loop, broadcaster, conn, pool,
                    active_players >>
    /\ UNCHANGED << oneVars, pvars >>

\* Lines 228-247.
WResolve(w) ==
    /\ sess[w].pc = "resolve"
    /\ \E netok \in BOOLEAN :
          LET me == sess[w]
              code == Winner(calculate_points_safe(me.player_cards),
                             me.dealer_sum)
              r == send_game_packet(me.wire, code, None, netok)
              sent == [sess EXCEPT ![w].wire = r.wire]
          IN sess' = IF r.exc # "none" THEN Caught(sent, w, r.exc)
                     ELSE [sent EXCEPT ![w].pc = "for_loop"]
    /\ games' = GamesLeft(games, w)
    /\ UNCHANGED << lock, work_queue, accept_loop, broadcaster, conn, pool,
                    active_players >>
    /\ UNCHANGED << oneVars, pvars >>

ServerNext ==
    \/ Accept
    \/ AcceptTimeout
    \/ AcceptContinue
    \/ AcceptError
    \/ Shutdown
    \/ Broadcast
    \/ BroadcastError
    \/ \E w \in Sessions : WStart(w)
    \/ \E w \in Sessions : WLockAcquire(w)
    \/ \E w \in Sessions : WCounterLoad(w)
    \/ \E w \in Sessions : WCounterStore(w)
    \/ \E w \in Sessions : WHandshake(w)
    \/ \E w \in Sessions : WForLoop(w)
    \/ \E w \in Sessions : WRoundStart(w)
    \/ \E w \in Sessions : WDeal(w)
    \/ \E w \in Sessions : WDealSend(w)
    \/ \E w \in Sessions : WPlayerTurn(w)
    \/ \E w \in Sessions : WBustSend(w)
    \/ \E w \in Sessions : WDealerTurn(w)
    \/ \E w \in Sessions : WResolve(w)
    \/ \E w \in Sessions : WExcept(w)
    \/ \E w \in Sessions : WClose(w)

\* The server with NumSessions connections, their workers interleaved.
ServerSpec == Init /\ [][ServerNext]_allvars

\* The steps of the pool thread that runs handle_client for connection w.
Worker(w) ==
    \/ WLockAcquire(w)
    \/ WCounterLoad(w)
    \/ WCounterStore(w)
    \/ WHandshake(w)
    \/ WForLoop(w)
    \/ WRoundStart(w)
    \/ WDeal(w)
    \/ WDealSend(w)
    \/ WPlayerTurn(w)
    \/ WBustSend(w)
    \/ WDealerTurn(w)
    \/ WResolve(w)
    \/ WExcept(w)
    \/ WClose(w)

\* The accept loop and the workers.  The thread of broadcast_offers reads
\* and writes nothing that a worker or the accept loop does (lines 53-73)
\* and is left out of this view.
ServerFairNext ==
    \/ Accept
    \/ AcceptTimeout
    \/ AcceptContinue
    \/ AcceptError
    \/ Shutdown
    \/ \E w \in Sessions : WStart(w)
    \/ \E w \in Sessions : Worker(w)

\* Every worker thread keeps being scheduled, and each of its blocking calls
\* returns: a lock held by another worker is released after two statements,
\* sendall and sleep return, and recv returns data, b'' or, after
\* CLIENT_TIMEOUT, a timeout.  A read whose message has no effect leaves
\* the state as it was; that a worker goes on to a step with an effect
\* says that the peer sends finitely many such messages.  The steps of
\* worker w are the steps that change its own state, sess[w].
ServerFairSpec ==
    /\ Init
    /\ [][ServerFairNext]_allvars
    /\ \A w \in Sessions : WF_<<sess[w]>>(Worker(w))

\* ------------------------------------------------- the server, the pool
\* The same server with MaxConns connections, seen from its pool (line 29,
\* a ThreadPoolExecutor).  A connection is known by its number until a
\* worker thread takes it from the queue; from then on the calls of
\* handle_client are counted by where they stand, for what a call may do
\* next does not depend on the connection it serves.  The accept loop is
\* seen only as accepting or left (a poll that timed out is back at accept
\* with nothing changed).

\* What shutdown puts in the queue to wake the worker threads (None).
NoWork == 0

\* The calls of handle_client that a worker thread has begun and that
\* have not returned.
Busy ==
    pool.entered + pool.running + pool.closing
        + (IF pool.holder = "none" THEN 0 ELSE 1)

\* The worker threads that wait in work_queue.get.
Idle == pool.started - pool.exited - Busy - pool.finished

\* Mutant: shutdown(wait=False); no thread is joined.
Joined_nowait(p) == TRUE

\* Line 330, wait=True: every thread of the pool is joined, that is, has
\* returned.
Joined(p) == p.exited = p.threads

\* Lines 319-321: a connection is accepted and handed to
\* thread_pool.submit, which puts the call in the queue without blocking.
PoolAccept ==
    /\ accept_loop = "accepting"
    /\ \E c \in Conns :
          /\ conn[c] = "none"
          /\ \A b \in Conns : b < c => conn[b] # "none"
          /\ conn' = [conn EXCEPT ![c] = "queued"]
          /\ work_queue' = Append(work_queue, c)
    /\ accept_loop' = "submitting"
    /\ UNCHANGED << sess, games, lock, broadcaster, pool, active_players >>
    /\ UNCHANGED << oneVars, pvars >>

\* Line 321, submit going on (_adjust_thread_count): the idle semaphore is
\* taken if a finished call has raised it, and submit returns; otherwise a
\* worker thread is to be started if fewer than max_workers are in the
\* pool's set, and else submit returns.
PoolAdjust ==
    /\ accept_loop = "submitting"
    /\ IF pool.idle_semaphore > 0
       THEN /\ pool' = [pool EXCEPT !.idle_semaphore = @ - 1]
            /\ accept_loop' = "accepting"
       ELSE /\ pool' = pool
            /\ accept_loop' = IF WorkerFree(pool.threads) THEN "starting"
                              ELSE "accepting"
    /\ UNCHANGED << sess, games, lock, work_queue, broadcaster, conn,
                    active_players >>
    /\ UNCHANGED << oneVars, pvars >>

\* Line 321, submit going on: Thread.start; the new worker thread runs and
\* comes to work_queue.get while submit waits for it.
PoolThreadStart ==
    /\ accept_loop = "starting"
    /\ pool' = [pool EXCEPT !.started = @ + 1]
    /\ accept_loop' = "adding"
    /\ UNCHANGED << sess, games, lock, work_queue, broadcaster, conn,
                    active_players >>
    /\ UNCHANGED << oneVars, pvars >>

\* Line 321, the end of submit: the started thread is added to the pool's
\* set and the loop goes back to accept.
PoolThreadAdd ==
    /\ accept_loop = "adding"
    /\ pool' = [pool EXCEPT !.threads = @ + 1]
    /\ accept_loop' = "accepting"
    /\ UNCHANGED << sess, games, lock, work_queue, broadcaster, conn,
                    active_players >>
    /\ UNCHANGED << oneVars, pvars >>

\* Line 29, a worker thread: a thread waiting in work_queue.get takes the
\* next submitted call and calls handle_client, which comes to
\* `with active_players_lock:` (line 259) and waits there for the lock.
PoolStart(c) ==
    /\ work_queue # <<>> /\ NextWork(work_queue) = c
    /\ Idle > 0
    /\ work_queue' = Remaining(work_queue, c)
    /\ conn' = [conn EXCEPT ![c] = "handed"]
    /\ pool' = [pool EXCEPT !.entered = @ + 1]
    /\ UNCHANGED << sess, games, lock, accept_loop, broadcaster, active_players >>
    /\ UNCHANGED << oneVars, pvars >>

\* Line 259: a call that waits for the lock takes it.
PoolLock ==
    /\ pool.entered > 0
    /\ CanAcquire(lock)
    /\ lock' = 1
    /\ pool' = [pool EXCEPT !.entered = @ - 1, !.holder = "inc"]
    /\ UNCHANGED << sess, games, work_queue, accept_loop, broadcaster, conn,
                    active_players >>
    /\ UNCHANGED << oneVars, pvars >>

\* Lines 260-261: the counter is incremented and the lock released; the
\* session goes on to read its Request (line 268) and play.
PoolCount ==
    /\ pool.holder = "inc"
    /\ active_players' = active_players + 1
    /\ lock' = 0
    /\ pool' = [pool EXCEPT !.holder = "none", !.running = @ + 1]
    /\ UNCHANGED << sess, games, work_queue, accept_loop, broadcaster, conn >>
    /\ UNCHANGED << oneVars, pvars >>

\* Lines 289-291: a session is over (its rounds are played, its Request
\* was invalid, or an exception was caught) and the finally block takes
\* the lock.
PoolFinally ==
    /\ pool.running > 0
    /\ CanAcquire(lock)
    /\ lock' = 1
    /\ pool' = [pool EXCEPT !.running = @ - 1, !.holder = "dec"]
    /\ UNCHANGED << sess, games, work_queue, accept_loop, broadcaster, conn,
                    active_players >>
    /\ UNCHANGED << oneVars, pvars >>

\* Lines 292-293: the counter is decremented and the lock released.
PoolDecrement ==
    /\ pool.holder = "dec"
    /\ active_players' = active_players - 1
    /\ lock' = 0
    /\ pool' = [pool EXCEPT !.holder = "none", !.closing = @ + 1]
    /\ UNCHANGED << sess, games, work_queue, accept_loop, broadcaster, conn >>
    /\ UNCHANGED << oneVars, pvars >>

\* Lines 295-296: the end of the session is logged, the socket is closed
\* and handle_client returns to its worker thread.
PoolEnd ==
    /\ pool.closing > 0
    /\ pool' = [pool EXCEPT !.closing = @ - 1, !.returned = @ + 1,
                            !.finished = @ + 1]
    /\ UNCHANGED << sess, games, lock, work_queue, accept_loop, broadcaster,
                    conn, active_players >>
    /\ UNCHANGED << oneVars, pvars >>

\* Line 29, a worker thread whose call has returned: it raises the idle
\* semaphore and goes back to work_queue.get.
PoolRelease ==
    /\ pool.finished > 0
    /\ pool' = [pool EXCEPT !.finished = @ - 1, !.idle_semaphore = @ + 1]
    /\ UNCHANGED << sess, games, lock, work_queue, accept_loop, broadcaster,
                    conn, active_players >>
    /\ UNCHANGED << oneVars, pvars >>

\* Line 330, thread_pool.shutdown: the pool is marked as shut down and a
\* wake-up is put in the queue, behind every submitted call.
PoolShutdown ==
    /\ accept_loop = "stopped"
    /\ accept_loop' = "joining"
    /\ work_queue' = Append(work_queue, NoWork)
    /\ UNCHANGED << sess, games, lock, broadcaster, conn, pool,
                    active_players >>
    /\ UNCHANGED << oneVars, pvars >>

\* Line 29, a worker thread of a pool that is shut down: a thread waiting
\* in work_queue.get takes the wake-up, puts it back for the other threads
\* and returns.
PoolExit ==
    /\ work_queue # <<>> /\ NextWork(work_queue) = NoWork
    /\ Idle > 0
    /\ work_queue' = Append(Remaining(work_queue, NoWork), NoWork)
    /\ pool' = [pool EXCEPT !.exited = @ + 1]
    /\ UNCHANGED << sess, games, lock, accept_loop, broadcaster, conn,
                    active_players >>
    /\ UNCHANGED << oneVars, pvars >>

\* Lines 330-331: shutdown(wait=True) has joined every thread of the pool;
\* the listening socket is closed and start_server returns.
PoolJoin ==
    /\ accept_loop = "joining"
    /\ Joined(pool)
    /\ accept_loop' = "returned"
    /\ UNCHANGED << sess, games, lock, work_queue, broadcaster, conn, pool,
                    active_players >>
    /\ UNCHANGED << oneVars, pvars >>

PoolNext ==
    \/ PoolAccept
    \/ PoolAdjust
    \/ PoolThreadStart
    \/ PoolThreadAdd
    \/ AcceptError
    \/ PoolShutdown
    \/ PoolJoin
    \/ \E c \in Conns : PoolStart(c)
    \/ PoolLock
    \/ PoolCount
    \/ PoolFinally
    \/ PoolDecrement
    \/ PoolEnd
    \/ PoolRelease
    \/ PoolExit

PoolSpec == Init /\ [][PoolNext]_allvars

\* The pool's threads are scheduled fairly: a thread that waits for work
\* takes the head of the queue, a call that waits for the lock gets it once
\* no other call asks for it any more, the holder of the lock goes on to
\* release it, a call past line 293 returns, and a running session ends.
PoolFairSpec ==
    /\ PoolSpec
    /\ WF_pool(\E c \in Conns : PoolStart(c))
    /\ WF_pool(PoolLock)
    /\ WF_pool(PoolCount)
    /\ WF_pool(PoolFinally)
    /\ WF_pool(PoolDecrement)
    /\ WF_pool(PoolEnd)
    /\ WF_pool(PoolRelease)

\* ------------------------------------------- the functions, call by call
\* Bound: the largest hand whose value is computed.
MaxHand == 5

\* A text of n one-byte characters.
Ascii(n) == [k \in 1..n |-> 97 + (k % 26)]

\* Display names of 0, 31, 32 and 40 bytes of UTF-8; the last two hold a
\* two-byte character (U+00E9) as bytes 31-32 and as bytes 32-33.
Names ==
    { Ascii(0), Ascii(31), Ascii(32), Ascii(40),
      Ascii(30) \o <<233>>, Ascii(31) \o <<233>> \o Ascii(7) }

Ports == {0, 1, 255, 256, 13117, 65535}

Packers ==
    {"pack_offer", "pack_request", "pack_client_payload",
     "pack_server_payload"}
Decoders ==
    {"unpack_offer", "unpack_request", "unpack_client_payload",
     "unpack_server_payload"}

\* The call of a packer on its arguments.
Encode(f, x) ==
    CASE f = "pack_offer" -> pack_offer(x[1], x[2])
      [] f = "pack_request" -> pack_request(x[1], x[2])
      [] f = "pack_client_payload" -> pack_client_payload(x)
      [] f = "pack_server_payload" -> pack_server_payload(x[1], x[2], x[3])

\* The call of a decoder on bytes.
Decode(f, b) ==
    CASE f = "unpack_offer" -> unpack_offer(b)
      [] f = "unpack_request" -> unpack_request(b)
      [] f = "unpack_client_payload" -> unpack_client_payload(b)
      [] f = "unpack_server_payload" ->
            [exc |-> "none", val |-> unpack_server_payload(b)]

\* The decoder of the message a packer makes.
DecoderOf(f) ==
    CASE f = "pack_offer" -> "unpack_offer"
      [] f = "pack_request" -> "unpack_request"
      [] f = "pack_client_payload" -> "unpack_client_payload"
      [] f = "pack_server_payload" -> "unpack_server_payload"

\* Bytes a decoder may be handed: well-formed messages of the four kinds,
\* messages whose text field is not UTF-8, and each of them with a byte
\* dropped or added, with one byte of the cookie changed, with another
\* type tag.
BaseMsgs ==
    { pack_offer(13117, Ascii(5)), pack_request(3, Ascii(5)),
      pack_client_payload(HitttStr), pack_server_payload(0, 13, 3),
      MAGIC_COOKIE \o <<MSG_OFFER>> \o PackU16(13117) \o [k \in 1..32 |-> 255],
      MAGIC_COOKIE \o <<MSG_REQUEST, 3>> \o [k \in 1..32 |-> 255],
      NonUtf8Decision }
WireBytes ==
    BaseMsgs
      \cup { <<>> }
      \cup { SubSeq(m, 1, Len(m) - 1) : m \in BaseMsgs }
      \cup { m \o <<0>> : m \in BaseMsgs }
      \cup { [m EXCEPT ![k] = (@ + 1) % 256] : k \in 1..4, m \in BaseMsgs }
      \cup { [m EXCEPT ![5] = t] : t \in 0..5, m \in BaseMsgs }

\* Hands of up to n cards as lists of ranks, in rising order.
RECURSIVE RankLists(_, _)
RankLists(n, lo) ==
    IF n = 0 THEN { <<>> }
    ELSE { <<>> } \cup
         UNION { { <<r>> \o h : h \in RankLists(n - 1, r) } : r \in lo..13 }

\* The cards of a list of ranks: equal ranks get the suits 0, 1, 2, 3.
Suited(h) ==
    [k \in 1..Len(h) |-> << h[k], Cardinality({ j \in 1..(k - 1) : h[j] = h[k] }) >>]
Reverse(q) == [k \in 1..Len(q) |-> q[Len(q) + 1 - k]]

\* The hands of up to n cards a deck can give: at most four cards of a rank,
\* low ranks first or last.
Hands(n) ==
    LET lists == { h \in RankLists(n, 1) :
                     \A r \in 1..13 :
                        Cardinality({ k \in 1..Len(h) : h[k] = r }) <= 4 }
    IN { Suited(h) : h \in lists } \cup { Reverse(Suited(h)) : h \in lists }

\* Before the first round of a session there is no game and no hand.
NoRound == [player |-> <<>>, dealer |-> <<>>, deck |-> <<>>]

FunInit ==
    /\ ServerInit
    /\ SessionInit
    /\ fn = "input"
    /\ res = None
    /\ \/ \E p \in Ports, n \in Names :
             arg = [f |-> "pack_offer", x |-> <<p, n>>]
       \/ \E r \in 1..255, n \in Names :
             arg = [f |-> "pack_request", x |-> <<r, n>>]
       \/ \E t \in {HitttStr, StandStr} :
             arg = [f |-> "pack_client_payload", x |-> t]
       \/ \E result \in 0..3, rank \in 1..13, suit \in 0..3 :
             arg = [f |-> "pack_server_payload", x |-> <<result, rank, suit>>]
       \/ \E d \in Decoders, b \in WireBytes : arg = [f |-> d, x |-> b]
       \/ \E h \in Hands(MaxHand) : arg = [f |-> "hand", x |-> h]
       \/ \E s \in ShuffleIds : arg = [f |-> "deck", x |-> Shuffled(s)]
       \/ arg = [f |-> "round", x |-> NoRound]

\* A message is packed from its fields.
FPack ==
    /\ fn = "input" /\ arg.f \in Packers
    /\ res' = Encode(arg.f, arg.x)
    /\ fn' = "packed"
    /\ UNCHANGED << arg, vars, svars >>

\* The packed message is handed to the decoder of its kind.
FUnpack ==
    /\ fn = "packed"
    /\ res' = Decode(DecoderOf(arg.f), res)
    /\ fn' = "unpacked"
    /\ UNCHANGED << arg, vars, svars >>

\* A decoder is called on received bytes.
FDecode ==
    /\ fn = "input" /\ arg.f \in Decoders
    /\ res' = Decode(arg.f, arg.x)
    /\ fn' = "decoded"
    /\ UNCHANGED << arg, vars, svars >>

ValueFns == {"calculate_points_safe", "calculate_hand"}

\* server.py lines 87-108, called on a hand; the hand may have been valued
\* before.
FCalcPointsSafe ==
    /\ fn \in {"input"} \cup ValueFns /\ arg.f = "hand"
    /\ res' = calculate_points_safe(arg.x)
    /\ fn' = "calculate_points_safe"
    /\ UNCHANGED << arg, vars, svars >>

\* game_logic.py lines 19-41, likewise.
FCalcHand ==
    /\ fn \in {"input"} \cup ValueFns /\ arg.f = "hand"
    /\ res' = calculate_hand(arg.x)
    /\ fn' = "calculate_hand"
    /\ UNCHANGED << arg, vars, svars >>

\* The ranks the console client keeps of the cards it was sent
\* (my_cards_ranks, dealer_cards_ranks).
RanksOf(cards) == [k \in 1..Len(cards) |-> cards[k][1]]

\* client_console.py lines 58-67: the loop over the ranks.
RECURSIVE SumRanks(_)
SumRanks(ranks) ==
    IF ranks = <<>> THEN [total |-> 0, aces |-> 0]
    ELSE LET t == SumRanks(SubSeq(ranks, 1, Len(ranks) - 1))
             r == ranks[Len(ranks)]
         IN IF r = 1 THEN [total |-> t.total + 11, aces |-> t.aces + 1]
            ELSE IF r >= 10 THEN [total |-> t.total + 10, aces |-> t.aces]
            ELSE [total |-> t.total + r, aces |-> t.aces]

\* Mutant: the client turns one Ace at most from 11 to 1.
client_calculate_hand_once(ranks) ==
    LET s == SumRanks(ranks) IN AdjustAces_once(s.total, s.aces)

\* calculate_hand of client_console.py, lines 54-75, on a list of ranks.
client_calculate_hand(ranks) ==
    LET s == SumRanks(ranks) IN AdjustAces(s.total, s.aces)

\* client_console.py lines 256-291: the client values the ranks of a hand;
\* the hand may have been valued before.
FClientCalcHand ==
    /\ fn \in {"input", "client_calculate_hand"} \cup ValueFns
    /\ arg.f = "hand"
    /\ res' = client_calculate_hand(RanksOf(arg.x))
    /\ fn' = "client_calculate_hand"
    /\ UNCHANGED << arg, vars, svars >>

\* game_logic.py lines 9-17: one more draw from the deck as the draws so
\* far have left it.
FDraw ==
    /\ fn \in {"input", "draw_card"} /\ arg.f = "deck"
    /\ LET d == IF fn = "input" THEN arg.x ELSE res.deck
       IN \E f \in ShuffleIds :
             /\ arg' = [f |-> "deck", x |-> d]
             /\ res' = draw_card(d, Shuffled(f))
    /\ fn' = "draw_card"
    /\ UNCHANGED << vars, svars >>

\* server.py lines 132-143, entered with the round before as it ended.
FNewRound ==
    /\ fn \in {"input", "round_start", "round_draw"} /\ arg.f = "round"
    /\ LET prev == IF fn = "input" THEN arg.x ELSE res
       IN \E s \in ShuffleIds, f \in ShuffleIds :
             /\ arg' = [f |-> "round", x |-> prev]
             /\ res' = InitialDeal(NewGame(prev.deck, s), Shuffled(f))
    /\ fn' = "round_start"
    /\ UNCHANGED << vars, svars >>

\* server.py lines 176-177: the round draws one more card for the player.
FRoundDraw ==
    /\ fn \in {"round_start", "round_draw"} /\ arg.f = "round"
    /\ Len(res.player) < MaxHand
    /\ \E f \in ShuffleIds :
          LET d == draw_card(res.deck, Shuffled(f))
          IN res' = [res EXCEPT !.player = Append(@, d.card), !.deck = d.deck]
    /\ fn' = "round_draw"
    /\ UNCHANGED << arg, vars, svars >>

FunNext ==
    \/ FPack
    \/ FUnpack
    \/ FDecode
    \/ FCalcPointsSafe
    \/ FCalcHand
    \/ FClientCalcHand
    \/ FDraw
    \/ FNewRound
    \/ FRoundDraw

\* The functions of protocol.py, game_logic.py and server.py, each called
\* on inputs of its domain.
FunSpec == FunInit /\ [][FunNext]_allvars

\* ----------------------------------------------------------------- claims
\* The packets written during round r, decoded as a client decodes them.
RoundWire(r) ==
    SubSeq(wire, round_base[r] + 1,
           IF r < Len(round_base) THEN round_base[r + 1] ELSE Len(wire))
RoundEvents(r) ==
    [k \in 1..Len(RoundWire(r)) |-> unpack_server_payload(RoundWire(r)[k])]
CardEvent(card) == << 0, card[1], card[2] >>
IsTerminal(ev) == ev # None /\ ev[1] \in {1, 2, 3}

\* Round r has left play_one_round (returned or raised).
RoundOver(r) ==
    r < Len(round_base)
       \/ pc \in {"for_loop", "round_start", "deal", "finally", "close", "done"}
\* The session was not ended by a read timeout, a disconnect, a broken
\* connection or an undecodable message.
NoPeerAbort == exc \in {"none", "TypeError"}

\* The events of round r are card events followed by exactly one terminal
\* event, which is the last.
OneTerminalLast(r) ==
    LET ev == RoundEvents(r)
    IN /\ Len(ev) >= 1
       /\ IsTerminal(ev[Len(ev)])
       /\ \A k \in 1..(Len(ev) - 1) : ev[k] # None /\ ev[k][1] = 0

PlayerValue == calculate_points_safe(player_cards)
DealerValue == calculate_points_safe(dealer_cards)
RoundStarted == Len(round_base) >= 1 /\ Len(round_base) = game_num
CurEvents == RoundEvents(Len(round_base))

\* C1: every round that was started and not aborted by a read timeout or a
\* peer disconnect has sent exactly one terminal Server-Event (result 1, 2
\* or 3), and that event is the last of the round.
C1_OneTerminalEvent ==
    \A r \in 1..Len(round_base) :
        (RoundOver(r) /\ NoPeerAbort) => OneTerminalLast(r)

\* C2: once the connection is closed after a validly decoded Request for n
\* rounds, with no timeout and no disconnect, play_one_round has run
\* exactly n times.
C2_RunsEveryRound ==
    (closed /\ NoPeerAbort) => Len(round_base) = num_rounds

\* C4: the result code chosen at Resolved is 3 if the dealer's value exceeds
\* 21; else 3 if the player's value exceeds the dealer's; else 2 if the
\* dealer's exceeds the player's; else 1.
C4_WinnerOrder ==
    winner # 0 =>
        /\ DealerValue > 21 => winner = 3
        /\ (DealerValue <= 21 /\ PlayerValue > DealerValue) => winner = 3
        /\ (DealerValue <= 21 /\ DealerValue > PlayerValue) => winner = 2
        /\ (DealerValue <= 21 /\ DealerValue = PlayerValue) => winner = 1
\* The dealer busted with more than the player holds: the case in which the
\* order of the tests decides.
C4_Witness ==
    /\ winner = 3
    /\ DealerValue > 21
    /\ DealerValue > PlayerValue

\* C5: a round in which a Hittt took the player's value over 21 ends with
\* the Server-Event (0, drawn card) followed by a Server-Event of result 2.
C5_BustEvents ==
    (RoundStarted /\ RoundOver(game_num) /\ NoPeerAbort /\ PlayerValue > 21) =>
        LET ev == CurEvents
        IN /\ Len(ev) >= 2
           /\ ev[Len(ev) - 1] = CardEvent(player_cards[Len(player_cards)])
           /\ ev[Len(ev)] # None /\ ev[Len(ev)][1] = 2

\* C6: in a round in which the player's value exceeds 21 the dealer's turn
\* is never entered: the dealer's second card is not sent, the dealer draws
\* no card and no result is computed.
C6_NoDealerTurnAfterBust ==
    (RoundStarted /\ PlayerValue > 21) =>
        /\ pc \notin {"dealer_reveal", "dealer_sum", "dealer_loop",
                      "dealer_send", "resolve"}
        /\ Len(dealer_cards) = 2
        /\ \A k \in 1..Len(CurEvents) : CurEvents[k] # CardEvent(dealer_cards[2])
        /\ winner = 0
C6_Witness ==
    /\ RoundStarted
    /\ PlayerValue > 21
    /\ pc = "done"

\* C7: in every round the four initial cards are popped from the shuffled
\* deck in the order player, player, dealer, dealer; the first three events
\* of the round are (0, player card 1), (0, player card 2), (0, dealer card
\* 1); the dealer's second card is not sent during Dealing or PlayerTurn.
C7_DealOrder ==
    RoundStarted =>
        /\ player_cards[1] = shuffled[52]
        /\ player_cards[2] = shuffled[51]
        /\ dealer_cards[1] = shuffled[50]
        /\ dealer_cards[2] = shuffled[49]
        /\ Len(CurEvents) >= 1 => CurEvents[1] = CardEvent(player_cards[1])
        /\ Len(CurEvents) >= 2 => CurEvents[2] = CardEvent(player_cards[2])
        /\ Len(CurEvents) >= 3 => CurEvents[3] = CardEvent(dealer_cards[1])
        /\ pc \in {"deal1", "deal2", "deal3", "player_top", "recv_decision",
                   "hit_send", "bust_send"} =>
              \A k \in 1..Len(CurEvents) :
                  CurEvents[k] # CardEvent(dealer_cards[2])
\* The player has hit once and is asked again: four events are out.
C7_Witness ==
    /\ RoundStarted
    /\ pc = "recv_decision"
    /\ Len(CurEvents) = 4
    /\ Len(player_cards) = 3

\* C8: in DealerTurn the dealer draws a card exactly when the dealer's value
\* is below 17: no card is drawn at 17 or more, and the dealer's value is at
\* least 17 whenever Resolved is reached.
C8_DealerThreshold ==
    /\ [](pc = "resolve" => DealerValue >= 17)
    /\ [][ /\ (pc = "dealer_loop" /\ pc' # pc) =>
                 ((dealer_cards' # dealer_cards) <=> (DealerValue < 17))
           /\ (Len(dealer_cards) >= 2 /\ Len(dealer_cards') > Len(dealer_cards)) =>
                 (DealerValue < 17 /\ Len(dealer_cards') = Len(dealer_cards) + 1)
         ]_vars
\* Resolved is reached after the dealer has drawn.
C8_Witness ==
    /\ pc = "resolve"
    /\ Len(dealer_cards) >= 3
    /\ DealerValue >= 17

\* C9: in PlayerTurn a Hittt pops exactly one card and appends it to the
\* player's hand, and when the value stays at 21 or less exactly one
\* Server-Event (0, that card) is sent (unless the connection is broken)
\* before the loop is back at its top; a Stand draws no card, sends nothing
\* and goes to DealerTurn.
C9_HitAndStand ==
    [][ /\ (pc = "recv_decision" /\ pc' # pc /\ RecvData(inbox) = HitttMsg) =>
              /\ pc' = "hit_send"
              /\ deck' = SubSeq(deck, 1, Len(deck) - 1)
              /\ player_cards' = Append(player_cards, deck[Len(deck)])
              /\ dealer_cards' = dealer_cards
              /\ wire' = wire
        /\ (pc = "hit_send" /\ pc' # pc /\ PlayerValue <= 21) =>
              /\ player_cards' = player_cards
              /\ dealer_cards' = dealer_cards
              /\ deck' = deck
              /\ \/ /\ Len(wire') = Len(wire) + 1
                    /\ SubSeq(wire', 1, Len(wire)) = wire
                    /\ unpack_server_payload(wire'[Len(wire')])
                          = CardEvent(player_cards[Len(player_cards)])
                    /\ pc' = "player_top"
                 \/ /\ exc' = "OSError"
                    /\ wire' = wire
        /\ (pc = "player_top" /\ pc' # pc /\ PlayerValue <= 21) =>
              /\ wire' = wire
              /\ deck' = deck
              /\ player_cards' = player_cards
        /\ (pc = "recv_decision" /\ pc' # pc /\ RecvData(inbox) = StandMsg) =>
              /\ pc' = "dealer_reveal"
              /\ deck' = deck
              /\ player_cards' = player_cards
              /\ dealer_cards' = dealer_cards
              /\ wire' = wire
      ]_vars
\* A Stand read after a Hittt that kept the player below 21: three initial
\* events and one for the hit card are out.
C9_Witness ==
    /\ RoundStarted
    /\ pc = "dealer_reveal"
    /\ last_recv = "Stand"
    /\ Len(player_cards) = 3
    /\ PlayerValue < 21
    /\ Len(CurEvents) = 4
    /\ CurEvents[4] = CardEvent(player_cards[3])

\* A message that passes the codec's length, cookie and type tests.
WellFormedDecision(data) ==
    /\ Len(data) = 10
    /\ SubSeq(data, 1, 4) = MAGIC_COOKIE
    /\ data[5] = MSG_PAYLOAD
\* A read to be discarded: not well-formed, or a token other than Hittt and
\* Stand.
Discardable(data) ==
    /\ data # <<>>
    /\ \/ ~WellFormedDecision(data)
       \/ SubSeq(data, 6, 10) \notin {utf8_encode(ClientHittt),
                                      utf8_encode(ClientStand)}

\* C10: in PlayerTurn a message that fails codec validation, or a
\* well-formed decision whose token is neither Hittt nor Stand, is discarded
\* without side effects: hands, deck and sent events are unchanged, the
\* session stays alive and the engine waits for another decision.
C10_GarbageDiscarded ==
    [][ (pc = "recv_decision" /\ pc' # pc /\ Discardable(RecvData(inbox))) =>
            /\ player_cards' = player_cards
            /\ dealer_cards' = dealer_cards
            /\ deck' = deck
            /\ wire' = wire
            /\ exc' = "none"
            /\ closed' = closed
            /\ pc' = "player_top"
      ]_vars

\* C11: whenever the player's hand value is exactly 21, after the initial
\* deal or after a Hittt, the engine goes from the player's turn to the
\* dealer's turn without reading a decision: it never waits for a decision
\* with a hand of 21, and the step taken at the top of the player's loop
\* with a hand of 21 goes to the dealer's reveal and reads nothing.
C11_AutoStandAt21 ==
    [][ /\ (pc' = "recv_decision" => calculate_points_safe(player_cards') # 21)
        /\ (pc = "player_top" /\ PlayerValue = 21 /\ pc' # pc) =>
               /\ pc' = "dealer_reveal"
               /\ inbox' = inbox
               /\ last_recv' = last_recv
               /\ wire' = wire
      ]_vars
\* A Hittt brought the hand to 21 and the dealer's turn began, although a
\* further decision was queued.
C11_Witness ==
    /\ pc = "dealer_reveal"
    /\ PlayerValue = 21
    /\ Len(player_cards) >= 3
    /\ last_recv = "Hittt"
    /\ inbox # <<>>

\* The session was ended by a read timeout or a zero-length read in the
\* player's turn.
DecisionReadFailed == exc \in {"Game Timeout", "Client disconnected"}

\* C12: a read timeout or a zero-length read while waiting for a decision
\* is fatal to the session: the read that fails raises (a read that finds
\* the connection reset by the peer raises as well), from then on no event
\* is sent and no round is started, and the two steps left to the server
\* decrement the counter and close the connection.
C12_DecisionReadFatal ==
    [][ /\ (pc = "recv_decision" /\ pc' # pc /\ RecvData(inbox) = <<>>) =>
               /\ exc' \in {"Game Timeout", "Client disconnected", "OSError"}
               /\ (exc' = "Game Timeout") <=> (peer_state # "closed")
               /\ pc' = "finally"
        /\ DecisionReadFailed =>
               /\ wire' = wire
               /\ round_base' = round_base
               /\ game_num' = game_num
               /\ exc' = exc
               /\ (pc = "finally" /\ pc' # pc) =>
                      /\ active_players' = active_players - 1
                      /\ pc' = "close"
               /\ (pc = "close" /\ pc' # pc) => (closed' /\ pc' = "done")
        /\ DecisionReadFailed' =>
               /\ pc' \in {"finally", "close", "done"}
               /\ pc' = "done" => (closed' /\ active_players' = 0)
      ]_vars
\* A session of two rounds that a zero-length read ended in its first
\* round: the peer had closed with nothing of the server's left unread.
C12_Witness ==
    /\ pc = "done"
    /\ exc = "Client disconnected"
    /\ peer_state = "closed"
    /\ closed
    /\ num_rounds = 2
    /\ game_num = 1
    /\ active_players = 0

\* The first message is a Request: 38 bytes, the cookie, type 3.
DecodesAsRequest(data) ==
    /\ Len(data) = 38
    /\ SubSeq(data, 1, 4) = MAGIC_COOKIE
    /\ data[5] = 3

\* C13: if the first read of a connection does not yield a Request (wrong
\* length, cookie or type, empty read, or timeout), the server goes straight
\* to closing the connection: no event has been sent and no round started
\* when it closes.
C13_BadRequestCloses ==
    [][ /\ (pc = "handshake" /\ pc' # pc
                /\ ~DecodesAsRequest(RecvData(inbox))) =>
               /\ pc' = "finally"
               /\ wire' = <<>>
               /\ round_base' = <<>>
               /\ game_num' = 0
        /\ (pc \in {"finally", "close"} /\ game_num = 0 /\ pc' # pc) =>
               /\ pc' = IF pc = "finally" THEN "close" ELSE "done"
               /\ closed' <=> pc = "close"
               /\ wire' = <<>>
               /\ round_base' = <<>>
      ]_vars
\* No Request arrived in time; the connection was closed with nothing sent
\* and no round started.
C13_Witness ==
    /\ pc = "done"
    /\ exc = "timeout"
    /\ closed
    /\ wire = <<>>
    /\ round_base = <<>>

\* C14: the counter is incremented for a connection only after its Request
\* has been decoded: it is 0 while the Request has not been read, and a
\* step that finds the Request undecodable happens with the counter at 0.
C14_CountsAfterDecode ==
    /\ pc = "handshake" => active_players = 0
    /\ (pc \in {"finally", "done"} /\ exc = "timeout")
           => active_players = 0

\* ------------------------------------------------ claims, several sessions
\* Worker w is between the write of its increment and the write of its
\* decrement.
Counted(w) ==
    sess[w].pc \in {"handshake", "for_loop", "round_start", "deal", "deal1",
                    "deal2", "deal3", "player_top", "bust_send",
                    "dealer_reveal", "dealer_sum", "dealer_loop", "resolve",
                    "except",
                    "finally", "dec_load", "dec_store"}
\* Worker w is blocked in a read or a write of its connection.
InNetworkCall(w) ==
    sess[w].pc \in {"handshake", "round_start", "deal1", "deal2", "deal3",
                    "player_top", "bust_send", "dealer_reveal", "dealer_loop",
                    "resolve", "close"}
InCriticalSection(w) ==
    sess[w].pc \in {"inc_load", "inc_store", "dec_load", "dec_store"}

\* C15: every increment of the counter is matched by exactly one decrement
\* on every exit path of handle_client: the counter is never negative,
\* equals the number of workers between their increment and their
\* decrement, and is 0 when no worker is running.
C15_CounterMatchesWorkers ==
    /\ active_players >= 0
    /\ active_players = Cardinality({ w \in Sessions : Counted(w) })
    /\ Running = {} => active_players = 0
\* Two sessions are counted, one of them on its way out after an
\* exception.
C15_Witness ==
    /\ active_players = 2
    /\ \E w \in Sessions : sess[w].pc = "except"

\* C16: the counter is written only by the worker that holds the lock, each
\* write adds or subtracts exactly one from the value the counter has at
\* the write (no update is lost), a worker in the locked region holds the
\* lock, and a worker blocked in a network read or write does not.
C16_LockDiscipline ==
    [][ \A w \in Sessions :
          /\ (sess[w].pc = "inc_store" /\ sess'[w].pc # "inc_store") =>
                 (lock = w /\ active_players' = active_players + 1)
          /\ (sess[w].pc = "dec_store" /\ sess'[w].pc # "dec_store") =>
                 (lock = w /\ active_players' = active_players - 1)
          /\ (sess[w].pc \notin {"inc_store", "dec_store"}
                 /\ sess'[w] # sess[w]
                 /\ \A v \in Sessions \ {w} : sess'[v] = sess[v]) =>
                 active_players' = active_players
          /\ InCriticalSection(w)' => lock' = w
          /\ InNetworkCall(w)' => lock' # w
      ]_allvars
\* One worker is in the locked region, between reading and writing the
\* counter, while another waits for the lock.
C16_Witness ==
    \E w \in Sessions, v \in Sessions :
        /\ w # v
        /\ lock = w
        /\ sess[w].pc = "dec_store"
        /\ sess[v].pc \in {"enter", "finally"}

\* Worker w's step is part of the failure of its session: an exception is
\* caught, an invalid Request is returned on, or the session goes on from
\* there to its end.
EndsSession(w) ==
    /\ sess'[w] # sess[w]
    /\ sess'[w].pc \in {"except", "finally", "dec_load", "dec_store", "close",
                        "done"}

\* C19: a failure in one session ends only that session: the steps by which
\* a session fails and ends change no other session's hands, deck, round
\* number or connection, and stop neither the accept loop nor the
\* Broadcaster.
C19_FailureIsolation ==
    [][ \A w \in Sessions :
          EndsSession(w) =>
              /\ \A v \in Sessions \ {w} :
                     /\ sess'[v] = sess[v]
                     /\ games'[v] = games[v]
              /\ accept_loop' = accept_loop
              /\ broadcaster' = broadcaster
              /\ work_queue' = work_queue
      ]_allvars
\* A session has failed by a read timeout while another is in its player's
\* turn with its cards dealt, the accept loop and the Broadcaster running.
C19_Witness ==
    \E w \in Sessions, v \in Sessions :
        /\ sess[w].pc = "except"
        /\ sess[w].exc = "Game Timeout"
        /\ sess[v].pc = "player_top"
        /\ Len(sess[v].player_cards) = 2
        /\ Len(sess[v].wire) = 3
        /\ accept_loop = "accepting"
        /\ broadcaster = "sending"

\* The cards session w has popped from the deck its round shuffled.
OwnPopped(w) ==
    LET n == Len(sess[w].player_cards) + Len(sess[w].dealer_cards)
    IN { sess[w].shuffled[52 - i] : i \in 0..(n - 1) }
HandCards(w) ==
    { sess[w].player_cards[i] : i \in 1..Len(sess[w].player_cards) }
        \cup { sess[w].dealer_cards[i] : i \in 1..Len(sess[w].dealer_cards) }
\* The result a round of session w can send: a bust, or the winner computed
\* from its hands.
OwnResults(w) ==
    {2, Winner(calculate_points_safe(sess[w].player_cards),
               calculate_points_safe(sess[w].dealer_cards))}

\* C20: with the sessions running concurrently under any interleaving,
\* every event written to a session's connection carries a card popped from
\* the deck that session shuffled, or a result computed from that session's
\* hands; the hands of a session hold exactly the cards popped from its own
\* deck and the rest of that deck is untouched by other workers.
C20_OwnDeckOnly ==
    \A w \in Sessions :
        sess[w].shuffled # <<>> =>
            /\ HandCards(w) = OwnPopped(w)
            /\ games[w] = SubSeq(sess[w].shuffled, 1,
                                 52 - Cardinality(OwnPopped(w)))
            /\ \A k \in 1..Len(sess[w].wire) :
                   LET ev == unpack_server_payload(sess[w].wire[k])
                   IN /\ ev # None
                      /\ IF ev[1] = 0 THEN << ev[2], ev[3] >> \in OwnPopped(w)
                         ELSE ev[1] \in OwnResults(w)
\* Two sessions are in a round at the same time: one has seen the dealer
\* draw a fifth card event, the other is in its player's turn.
C20_Witness ==
    \E w \in Sessions, v \in Sessions :
        /\ w # v
        /\ sess[w].pc = "dealer_loop"
        /\ Len(sess[w].dealer_cards) = 3
        /\ Len(sess[w].wire) = 5
        /\ sess[v].pc = "player_top"
        /\ Len(sess[v].wire) = 3

\* -------------------------------------------------------- claims, the pool
\* C17: at most 10 calls of handle_client are under way at the same time,
\* and the counter of active sessions never exceeds 10; a connection
\* that arrives is put in the queue and stays there until a worker thread
\* takes it (it is neither rejected nor closed); the accept loop, while it
\* runs, can accept the next connection whatever the load of the pool,
\* and each step of submit can be taken whatever the workers do.
C17_PoolBound ==
    /\ [](Busy <= 10 /\ active_players <= 10)
    /\ []((accept_loop = "accepting" /\ \E c \in Conns : conn[c] = "none")
             => ENABLED PoolAccept)
    /\ [](/\ accept_loop = "submitting" => ENABLED PoolAdjust
          /\ accept_loop = "starting" => ENABLED PoolThreadStart
          /\ accept_loop = "adding" => ENABLED PoolThreadAdd)
    /\ [][ \A c \in Conns :
              /\ (conn[c] = "none" /\ conn'[c] # "none") =>
                     (conn'[c] = "queued"
                        /\ work_queue' = Append(work_queue, c))
              /\ conn[c] = "queued" => conn'[c] \in {"queued", "handed"}
              /\ (conn[c] = "queued" /\ conn'[c] = "queued") =>
                     \E i \in 1..Len(work_queue') : work_queue'[i] = c
          ]_allvars
\* Ten calls are under way, the ten threads of the pool are in them, and
\* the eleventh and the twelfth connection, accepted since, are queued.
C17_Witness ==
    /\ Busy = 10
    /\ pool.threads = 10
    /\ conn[MAX_CONCURRENT_CLIENTS + 1] = "queued"
    /\ conn[MAX_CONCURRENT_CLIENTS + 2] = "queued"
    /\ accept_loop = "accepting"

\* C18: whenever a connection that can be queued behind a full pool (the
\* eleventh or a later one) is queued, a moment comes at which no
\* connection is queued any more (each has been handed to a worker thread)
\* and no call waits for or is at the increment of the counter, so that
\* the session of each has come to the read of its Request, provided
\* running sessions end; connections are handed to the worker threads in
\* the order in which they were accepted.
C18_QueuedIsServed ==
    /\ (\E c \in (MAX_CONCURRENT_CLIENTS + 1)..MaxConns : conn[c] = "queued")
          ~> /\ \A c \in Conns : conn[c] \in {"none", "handed"}
             /\ pool.entered = 0 /\ pool.holder # "inc"
    /\ [][ \A c \in Conns :
              (conn[c] = "queued" /\ conn'[c] # "queued") =>
                  /\ conn'[c] = "handed"
                  /\ pool'.entered = pool.entered + 1
                  /\ \A b \in Conns : b < c => conn[b] = "handed"
          ]_allvars
\* The eleventh and the twelfth connection were both queued before any
\* session had ended (the idle semaphore raised by the one call that has
\* returned was taken by no submit); the eleventh has since been handed to
\* the thread that became free and is past its increment, the twelfth is
\* still queued behind ten calls under way.
C18_Witness ==
    /\ conn[MAX_CONCURRENT_CLIENTS + 1] = "handed"
    /\ conn[MAX_CONCURRENT_CLIENTS + 2] = "queued"
    /\ pool.returned = 1
    /\ pool.idle_semaphore = 1
    /\ pool.entered = 0 /\ pool.holder # "inc"
    /\ Busy = 10
    /\ pool.finished = 0
    /\ accept_loop = "accepting"

\* ----------------------------------------------- claims, server lifecycle
\* C21: a failed Offer send does not stop the Broadcaster: while it is
\* sending it is still sending after every step, so a later Offer follows
\* every failure.
C21_BroadcasterSurvives ==
    [][broadcaster = "sending" => broadcaster' = "sending"]_allvars

\* C22: the shutdown of the pool is waited for: while a submitted call is
\* queued or under way start_server cannot return, and when it has
\* returned (the listening socket is closed) every connection that was
\* accepted has been handed to a worker thread, every call of handle_client
\* has returned, and every thread of the pool has returned.
C22_ShutdownDrains ==
    /\ (accept_loop = "joining"
           /\ (Busy > 0 \/ pool.finished > 0
                  \/ \E c \in Conns : conn[c] = "queued"))
          => ~ENABLED PoolJoin
    /\ accept_loop = "returned" =>
          /\ work_queue = << NoWork >>
          /\ \A c \in Conns : conn[c] \in {"none", "handed"}
          /\ Busy = 0
          /\ pool.returned = Cardinality({ c \in Conns : conn[c] = "handed" })
          /\ active_players = 0
          /\ pool.finished = 0
          /\ pool.exited = pool.threads /\ pool.started = pool.threads
          /\ \A w \in Sessions : sess[w].pc \in {"none", "done"}
\* start_server has returned after all MaxConns sessions returned, on the ten
\* threads of the pool.
C22_Witness ==
    /\ accept_loop = "returned"
    /\ pool.returned = MaxConns
    /\ pool.threads = MAX_CONCURRENT_CLIENTS

\* C23: the step that begins a round leaves nothing queued on the
\* connection and acts on none of the dropped bytes: nothing is written,
\* no exception is raised and the round goes on to its Dealing, which
\* reads nothing; what the round reads later was queued after the drain.
C23_DrainBeforeRound ==
    [][/\ pc = "round_start" /\ pc' # "round_start" =>
             /\ inbox' = <<>>
             /\ pc' = "deal"
             /\ wire' = wire
             /\ exc' = exc
       /\ pc = "deal" /\ pc' # "deal" =>
             /\ inbox' = inbox
             /\ pc' = "deal1"
             /\ wire' = wire
             /\ exc' = exc]_allvars
C23_Witness ==
    /\ last_recv = "drained"
    /\ pc = "recv_decision"
    /\ peer_state = "playing"

\* ------------------------------------------------ claims, order of events
\* The cards of both hands in the order the round is to send them.
SendOrder ==
    << player_cards[1], player_cards[2], dealer_cards[1] >>
        \o SubSeq(player_cards, 3, Len(player_cards))
        \o << dealer_cards[2] >>
        \o SubSeq(dealer_cards, 3, Len(dealer_cards))

\* C30: when a round has reached its resolution, the events sent in it are
\* exactly the card events of the two hands, each card once, in the order
\* player 1, player 2, dealer 1, the hits, dealer 2, the dealer's draws.
C30_CardEventOrder ==
    pc = "resolve" =>
        CurEvents = [k \in 1..Len(SendOrder) |-> CardEvent(SendOrder[k])]
C30_Witness ==
    /\ pc = "resolve"
    /\ Len(player_cards) >= 3
    /\ Len(dealer_cards) >= 3


\* ------------------------------------------------- claims, the functions
\* C24: what a decoder returns for the message packed from a legal input
\* is that input: (port, name), (rounds, name), the token, (result, rank,
\* suit).
C24_RoundTrip ==
    fn = "unpacked" => res = [exc |-> "none", val |-> arg.x]

\* The fixed size and the type tag of the message a decoder reads.
SizeOf(f) ==
    CASE f = "unpack_offer" -> 39
      [] f = "unpack_request" -> 38
      [] f = "unpack_client_payload" -> 10
      [] f = "unpack_server_payload" -> 9
TagOf(f) ==
    CASE f = "unpack_offer" -> MSG_OFFER
      [] f = "unpack_request" -> MSG_REQUEST
      [] f = "unpack_client_payload" -> MSG_PAYLOAD
      [] f = "unpack_server_payload" -> MSG_PAYLOAD
\* Wrong length, or the right length with a wrong cookie or a wrong tag.
Malformed(f, b) ==
    \/ Len(b) # SizeOf(f)
    \/ SubSeq(b, 1, 4) # MAGIC_COOKIE
    \/ b[5] # TagOf(f)

\* C25: a decoder called on bytes of the wrong length, or of the right
\* length with a wrong cookie or type tag, returns None and raises nothing.
C25_MalformedIsNone ==
    fn = "decoded" /\ Malformed(arg.f, arg.x) =>
        res = [exc |-> "none", val |-> None]
\* An Offer-sized message with a wrong tag whose name is not UTF-8 was
\* decoded, and so was bytes of another length.
C25_Witness ==
    /\ fn = "decoded"
    /\ arg.f = "unpack_offer"
    /\ Len(arg.x) = 39
    /\ SubSeq(arg.x, 1, 4) = MAGIC_COOKIE
    /\ arg.x[5] = MSG_REQUEST
    /\ arg.x[39] = 255
    /\ res.val = None

\* The value of a card with every Ace counted as 1.
HardValue(card) == IF card[1] >= 10 THEN 10 ELSE card[1]
RECURSIVE HardTotal(_)
HardTotal(cards) ==
    IF cards = <<>> THEN 0 ELSE HardValue(cards[1]) + HardTotal(Tail(cards))
NumAces(cards) == Cardinality({ k \in 1..Len(cards) : cards[k][1] = 1 })
\* The totals a hand can be counted as: each Ace 1 or 11.
Totals(cards) == { HardTotal(cards) + 10 * k : k \in 0..NumAces(cards) }
\* The largest total not above 21, or the total with every Ace as 1.
BestTotal(cards) ==
    LET ok == { t \in Totals(cards) : t <= 21 }
    IN IF ok = {} THEN HardTotal(cards)
       ELSE CHOOSE t \in ok : \A u \in ok : u <= t

\* C26: the value computed for a hand is the largest total not above 21
\* with each Ace as 1 or 11, or the all-Aces-as-1 total when there is none;
\* the call leaves the hand as it was and a second call gives the value of
\* the first; Ace + King is 21 and Ace + Ace + 9 is 21.
C26_HandValue ==
    [][fn' \in ValueFns =>
          /\ res' = BestTotal(arg'.x)
          /\ arg' = arg
          /\ fn \in ValueFns => res' = res
          /\ arg.x = << <<1, 0>>, <<13, 0>> >> => res' = 21
          /\ arg.x = << <<1, 0>>, <<1, 1>>, <<9, 0>> >> => res' = 21]_allvars
\* A hand with two Aces, one counted as 11 and one as 1, was valued twice.
C26_Witness ==
    /\ fn = "calculate_hand"
    /\ arg.x = << <<1, 0>>, <<1, 1>>, <<9, 0>> >>
    /\ res = 21

\* The values of the cards other than Aces.
NonAces(cards) == SelectSeq(cards, LAMBDA c : c[1] # 1)

\* C27 as stated: a hand with at most one Ace and at most four other cards
\* whose values sum to 21 or less has a value of 21 or less.
C27_AtMostOneAce ==
    fn \in ValueFns /\ NumAces(arg.x) <= 1 /\ Len(NonAces(arg.x)) <= 4
        /\ HardTotal(NonAces(arg.x)) <= 21
    => res <= 21

\* C27 amended: a hand with at most one Ace and at most four other cards
\* has a value of 21 or less when the other cards sum to 21 or less and,
\* if the hand has an Ace, to 20 or less.
C27_AtMostOneAceTwenty ==
    fn \in ValueFns /\ NumAces(arg.x) <= 1 /\ Len(NonAces(arg.x)) <= 4
        /\ HardTotal(NonAces(arg.x)) <= 21 - NumAces(arg.x)
    => res <= 21
\* An Ace with four other cards summing to 20 was valued: the Ace counts 1.
C27_Witness ==
    /\ fn = "calculate_points_safe"
    /\ NumAces(arg.x) = 1
    /\ Len(NonAces(arg.x)) = 4
    /\ HardTotal(NonAces(arg.x)) = 20
    /\ res = 21

\* The cards of a list, and the 52 cards.
CardSet(cards) == { cards[k] : k \in 1..Len(cards) }
AllCards == (1..13) \X (0..3)
Distinct(cards) == Cardinality(CardSet(cards)) = Len(cards)

\* C28: after every draw the deck holds pairwise distinct cards of rank
\* 1..13 and suit 0..3; a draw from a deck with cards returns its last card
\* and leaves the others; a draw from an empty deck returns a card and
\* leaves the 51 others of a full set.
C28_DeckAndDraw ==
    fn = "draw_card" =>
        /\ Distinct(res.deck)
        /\ CardSet(res.deck) \subseteq AllCards
        /\ res.card \in AllCards
        /\ IF arg.x # <<>>
           THEN /\ res.card = arg.x[Len(arg.x)]
                /\ res.deck = SubSeq(arg.x, 1, Len(arg.x) - 1)
           ELSE /\ Len(res.deck) = 51
                /\ CardSet(res.deck) \cup {res.card} = AllCards
\* The draw after the fifty-second.
C28_Witness ==
    /\ fn = "draw_card"
    /\ arg.x = <<>>
    /\ Len(res.deck) = 51

\* C29: whatever the round before left, a round begins with two hands of
\* the two cards just dealt and a deck of the 48 other cards of a full set.
C29_FreshRound ==
    fn = "round_start" =>
        /\ Len(res.player) = 2
        /\ Len(res.dealer) = 2
        /\ Len(res.deck) = 48
        /\ CardSet(res.player) \cup CardSet(res.dealer) \cup CardSet(res.deck)
              = AllCards
\* A round began after one that ended with a hand of three cards or more.
C29_Witness ==
    /\ fn = "round_start"
    /\ Len(arg.x.player) >= 3
    /\ Len(arg.x.deck) < 48

\* ---------------------------------------------- claims, what is on the wire
\* C31: every packet written to the connection decodes to a Server-Event
\* whose card is one of the 52 cards and was popped from the deck of the
\* round it was sent in; none carries a sentinel or no card.
C31_RealCardsOnly ==
    \A r \in 1..Len(round_base) :
        LET evs == RoundEvents(r)
            popped == CardSet(shuffled) \ CardSet(deck)
        IN \A k \in 1..Len(evs) :
              /\ evs[k] # None
              /\ << evs[k][2], evs[k][3] >> \in AllCards
              /\ r = Len(round_base) => << evs[k][2], evs[k][3] >> \in popped
\* A send with no card was attempted after cards had been sent: it raised,
\* and the wire holds the card events only.
C31_Witness ==
    /\ exc = "TypeError"
    /\ Len(wire) >= 4
    /\ \A k \in 1..Len(wire) : unpack_server_payload(wire[k])[1] = 0

\* C32: at the top of the player's loop the hand is worth 21 or less; the
\* bust branch there is never taken.
C32_NoBustAtLoopTop ==
    [][pc = "player_top" =>
          /\ PlayerValue <= 21
          /\ pc' \in {"player_top", "recv_decision", "dealer_reveal"}
          /\ wire' = wire
          /\ exc' = exc]_allvars
\* The loop top was reached again after a hit, and with 21 after a hit.
C32_Witness ==
    /\ pc = "player_top"
    /\ Len(player_cards) >= 3
    /\ PlayerValue = 21

\* ------------------------------------------------- claims, inside a round
\* The cards dealt in the current round, both hands together.
Dealt == player_cards \o dealer_cards

\* C33: in a round the deck is what its shuffle gave less the cards dealt
\* so far and is never empty, so no draw refills it; the cards of the two
\* hands are pairwise distinct.
C33_DeckNeverExhausted ==
    RoundStarted =>
        /\ Len(deck) >= 1
        /\ deck = SubSeq(shuffled, 1, 52 - Len(Dealt))
        /\ Distinct(Dealt)
\* A round in which the low cards came first and the player kept asking.
C33_Witness ==
    /\ RoundStarted
    /\ Len(player_cards) >= 9
    /\ Len(Dealt) >= 11

\* C34: a read of the player's loop leads to a draw or to the dealer's turn
\* only when it returned exactly 10 bytes; when two or more decisions are
\* queued the read takes them all, and they are dropped as one invalid
\* message: no card is drawn, nothing is sent, the loop waits again.
C34_OneDecisionPerRead ==
    [][pc = "recv_decision" /\ pc' # "recv_decision" =>
          /\ last_recv' \in {"Hittt", "Stand"} => Len(RecvData(inbox)) = 10
          /\ Len(inbox) >= 2 =>
                /\ inbox' = <<>>
                /\ pc' = "player_top"
                /\ last_recv' = "wrong size"
                /\ wire' = wire
                /\ exc' = exc
                /\ deck' = deck
                /\ player_cards' = player_cards]_allvars
\* Several decisions were read at once and dropped; the loop is at its top
\* with the two cards of the deal.
C34_Witness ==
    /\ last_recv = "wrong size"
    /\ pc = "player_top"
    /\ Len(player_cards) = 2

\* --------------------------------------------- claims, the zero-round case
\* C35: a well-formed Request for 0 rounds is accepted like any other: the
\* handler enters its loop, leaves it at once without a round, writes no
\* Server-Event, then decrements the counter and closes the connection.
C35_ZeroRounds ==
    [][/\ (pc = "handshake" /\ pc' # "handshake"
              /\ RecvData(inbox) = pack_request(0, BotName)) =>
                (pc' = "for_loop" /\ num_rounds' = 0 /\ exc' = "none")
       /\ (pc = "for_loop" /\ num_rounds = 0 /\ pc' # "for_loop") =>
                (pc' = "finally" /\ game_num' = 0 /\ wire' = <<>>
                    /\ exc' = "none")
       /\ (pc = "finally" /\ num_rounds = 0 /\ pc' # "finally") =>
                (pc' = "close" /\ wire' = <<>>
                    /\ round_base' = <<>>
                    /\ active_players' = active_players - 1)
       /\ (pc = "close" /\ num_rounds = 0 /\ pc' # "close") =>
                (pc' = "done" /\ closed' /\ wire' = <<>>
                    /\ round_base' = <<>>
                    /\ active_players' = active_players)]_allvars
\* The handler is in its loop for a Request of 0 rounds.
C35_Witness ==
    /\ pc = "for_loop"
    /\ num_rounds = 0
    /\ exc = "none"
    /\ active_players = 1
    /\ wire = <<>>

\* -------------------------------------------------- claims, termination
\* The value of session w's hands with every Ace counted as 1.
PlayerHard(w) == HardTotal(sess[w].player_cards)
DealerHard(w) == HardTotal(sess[w].dealer_cards)
InDealerTurn(w) ==
    sess[w].pc \in {"dealer_reveal", "dealer_sum", "dealer_loop"}
InRound(w) ==
    sess[w].pc \in {"player_top", "bust_send", "dealer_reveal", "dealer_sum",
                    "dealer_loop"}

\* C36: in a round, a card is added to the player's hand only while its
\* all-Aces-as-1 total is 20 or less and to the dealer's only while it is
\* 16 or less, and each card added raises that total; the dealer's turn,
\* which reads nothing from the peer, always comes to its end.
C36_TurnsAreBounded ==
    /\ [][\A w \in Sessions :
             (InRound(w) /\ sess'[w].pc # "except") =>
                /\ Len(sess'[w].player_cards) > Len(sess[w].player_cards) =>
                      /\ PlayerHard(w) <= 20
                      /\ PlayerHard(w)' > PlayerHard(w)
                /\ Len(sess'[w].dealer_cards) > Len(sess[w].dealer_cards) =>
                      /\ DealerHard(w) <= 16
                      /\ DealerHard(w)' > DealerHard(w)]_allvars
    /\ \A w \in Sessions : InDealerTurn(w) ~> ~InDealerTurn(w)
\* The dealer's turn is over after the dealer drew.
C36_Witness ==
    \E w \in Sessions :
        /\ sess[w].pc = "resolve"
        /\ Len(sess[w].dealer_cards) >= 3

\* C37: under the fairness of ServerFairSpec, every session a worker has
\* begun ends: the worker passes the decrement of the finally block (one
\* step, one lower) on its way to the close, closes the connection once,
\* and nothing of the session changes after that; with no worker running
\* the counter is back at 0.
C37_SessionEnds ==
    /\ \A w \in Sessions : (sess[w].pc = "enter") ~> (sess[w].pc = "done")
    /\ [](Running = {} => active_players = 0)
    /\ [][\A w \in Sessions :
             /\ sess[w].pc = "done" => sess'[w] = sess[w]
             /\ sess'[w].closed # sess[w].closed =>
                   sess[w].pc = "close" /\ sess'[w].pc = "done"
                   /\ sess'[w].closed /\ sess'[w].wire = <<>>
             /\ (sess'[w].pc = "close" /\ sess[w].pc # "close") =>
                   /\ sess[w].pc = "dec_store"
                   /\ active_players' = active_players - 1
             /\ (sess'[w].pc = "done" /\ sess[w].pc # "done") =>
                   sess[w].pc = "close"]_allvars
\* A session has ended and is closed, its count given back, while another
\* one is in a round.
C37_Witness ==
    \E w, v \in Sessions :
        /\ sess[w].pc = "done" /\ sess[w].closed
        /\ sess[v].pc = "player_top"
        /\ active_players = 1

\* What the accept loop and the pool's queue hold.
acceptVars == << accept_loop, work_queue >>

\* C38: the accept loop only accepts and submits: an accepted connection is
\* queued with nothing read from it, and its Request is read by the pool
\* worker that runs handle_client for it; a worker waiting for a Request
\* stops neither the accept loop nor another worker; an accept that times
\* out changes nothing, and the loop then accepts again.
C38_AcceptNeverReads ==
    /\ []((accept_loop = "accepting" /\ \E w \in Sessions : sess[w].pc = "none")
             => ENABLED Accept)
    /\ [](\A w, v \in Sessions :
             (sess[w].pc = "handshake" /\ sess[v].pc = "handshake")
                => ENABLED WHandshake(v))
    /\ [][/\ \A w \in Sessions :
               /\ (sess[w].pc = "none" /\ sess'[w] # sess[w]) =>
                     /\ sess'[w] = [sess[w] EXCEPT !.pc = "queued"]
                     /\ work_queue' = Append(work_queue, w)
                     /\ accept_loop = "accepting" /\ accept_loop' = "accepting"
               /\ (sess[w].pc \in {"none", "queued"}) =>
                     /\ sess'[w].num_rounds = sess[w].num_rounds
                     /\ sess'[w].exc = sess[w].exc
               /\ sess'[w].num_rounds # sess[w].num_rounds =>
                     sess[w].pc \in {"handshake", "close"}
               /\ (sess[w].pc = "handshake" /\ sess'[w] # sess[w]) =>
                     /\ acceptVars' = acceptVars
                     /\ \A v \in Sessions \ {w} : sess'[v] = sess[v]
          /\ (accept_loop' = "timed_out" /\ accept_loop # "timed_out") =>
                /\ accept_loop = "accepting"
                /\ << sess, games, lock, work_queue, broadcaster, conn, pool,
                      active_players >>' =
                   << sess, games, lock, work_queue, broadcaster, conn, pool,
                      active_players >>
          /\ (accept_loop = "timed_out" /\ accept_loop' # "timed_out") =>
                /\ accept_loop' = "accepting"
                /\ << sess, games, lock, work_queue, broadcaster, conn, pool,
                      active_players >>' =
                   << sess, games, lock, work_queue, broadcaster, conn, pool,
                      active_players >>
         ]_allvars
\* A worker waits for the Request of its connection; the accept loop has
\* since accepted another connection, whose worker has read its Request,
\* and is in the handler of an accept that timed out.
C38_Witness ==
    \E w, v \in Sessions :
        /\ w < v
        /\ sess[w].pc = "handshake"
        /\ sess[v].pc = "for_loop" /\ sess[v].num_rounds = 1
        /\ accept_loop = "timed_out"

\* The result code of lines 228-243 for the two hands of the round.
InlineWinner == Winner(PlayerValue, DealerValue)
BothHands == RoundStarted /\ player_cards # <<>> /\ dealer_cards # <<>>

\* C39 as stated: on the hands of a round the inline result code and
\* get_winner differ only when both hands are over 21.
C39_DifferOnlyBothBust ==
    (BothHands /\ InlineWinner # get_winner(player_cards, dealer_cards))
       => (PlayerValue > 21 /\ DealerValue > 21)
\* C39, amended: when the round resolves, the player's hand is 21 or less,
\* the dealer's total in use is the value of the dealer's hand, and the
\* inline result code is the one get_winner gives for the two hands; on the
\* hands of a round the two differ exactly when the player's hand is over
\* 21, whatever the dealer's.
C39_WinnerAgrees ==
    /\ pc = "resolve" =>
          /\ PlayerValue <= 21
          /\ dealer_sum = DealerValue
          /\ Winner(PlayerValue, dealer_sum)
                = get_winner(player_cards, dealer_cards)
    /\ BothHands =>
          (InlineWinner # get_winner(player_cards, dealer_cards)
              <=> PlayerValue > 21)
\* The round resolves with the dealer over 21.
C39_Witness ==
    /\ pc = "resolve"
    /\ DealerValue > 21
    /\ PlayerValue <= 21
    /\ get_winner(player_cards, dealer_cards) = 3

\* C40: server calculate_points_safe, BlackjackGame.calculate_hand and the
\* console client's calculate_hand, the last on the ranks of the cards,
\* give one value for every hand, whichever of them was called.
C40_ThreeValuesAgree ==
    (arg.f = "hand" /\ fn \in ValueFns \cup {"client_calculate_hand"}) =>
        /\ res = calculate_points_safe(arg.x)
        /\ res = calculate_hand(arg.x)
        /\ res = client_calculate_hand(RanksOf(arg.x))
\* The client has valued a hand of two Aces and a face card, which takes
\* two adjustments, at 12.
C40_Witness ==
    /\ fn = "client_calculate_hand"
    /\ arg.f = "hand"
    /\ Len(arg.x) = 3
    /\ NumAces(arg.x) = 2
    /\ res = 12

====
